---- MODULE Spec2Model ----
(***************************************************************************)
(* State-machine model of aws-c-http's connection management core          *)
(* (source/connection.c): the client connect bootstrap, the server's       *)
(* accept/register/shutdown choreography, and connection refcounting; and  *)
(* of the HTTP/1.1 connection's stream pipeline and window updates         *)
(* (include/aws/http/private/h1_connection.h).                             *)
(***************************************************************************)
EXTENDS Integers, Sequences, FiniteSets, TLC

(***************************************************************************)
(* Error codes.  Only their identity and "is it zero" matter to the code.  *)
(***************************************************************************)
AWS_ERROR_SUCCESS == "AWS_ERROR_SUCCESS"
AWS_ERROR_UNKNOWN == "AWS_ERROR_UNKNOWN"
AWS_ERROR_OOM == "AWS_ERROR_OOM"
AWS_ERROR_INVALID_STATE == "AWS_ERROR_INVALID_STATE"
AWS_ERROR_INVALID_ARGUMENT == "AWS_ERROR_INVALID_ARGUMENT"
AWS_ERROR_HTTP_CONNECTION_CLOSED == "AWS_ERROR_HTTP_CONNECTION_CLOSED"
AWS_ERROR_HTTP_REACTION_REQUIRED == "AWS_ERROR_HTTP_REACTION_REQUIRED"
AWS_ERROR_HTTP_UNSUPPORTED_PROTOCOL == "AWS_ERROR_HTTP_UNSUPPORTED_PROTOCOL"
AWS_IO_SOCKET_CLOSED == "AWS_IO_SOCKET_CLOSED"

\* Codes the transport (channel, socket, TLS handler) reports on its own.
TransportErrors == {AWS_IO_SOCKET_CLOSED, AWS_ERROR_OOM}
\* Reasons a channel shutdown may carry: a clean close reports success.
ShutdownReasons == TransportErrors \cup {AWS_ERROR_SUCCESS}

AWS_HTTP_VERSION_1_1 == "HTTP/1.1"
AWS_HTTP_VERSION_2 == "HTTP/2"

s_alpn_protocol_http_1_1 == "http/1.1"
s_alpn_protocol_http_2 == "h2"

\* ALPN results the TLS handler may report; "" is an empty/absent result.
AlpnResults == {"", "http/1.1", "h2", "h2c", "H2"}

NoValue == "none"
AWS_ERROR_HTTP_STREAM_IDS_EXHAUSTED == "AWS_ERROR_HTTP_STREAM_IDS_EXHAUSTED"

\* Bound on the references one user holds at a time.
MaxUserRefs == 2

\* Number of channels the listener accepts.
MaxChannels == 1
Channels == 1..MaxChannels

\* Number of threads calling aws_http_server_release.
MaxReleasers == 2
Releasers == 1..MaxReleasers

\* Calls the user makes on one connection.
MaxApiCalls == 2

\* Stream ids: calls made in one run, and how many of the earliest and of
\* the latest states of a connection's id counter a run may start from.
MaxStreamCalls == 5
StreamWindow == 6

\* Number of threads sharing one connection, and of acquire calls they make.
MaxRefThreads == 3
MaxAcquires == 2
RefThreads == 1..MaxRefThreads

\* Streams submitted on one HTTP/1.1 connection.
MaxStreams == 4
StreamNames == 1..MaxStreams

\* Threads calling update_window on one connection, and the largest
\* increment one call asks for.
MaxWindowCallers == 2
MaxIncrement == 2
WindowCallers == 1..MaxWindowCallers

VARIABLES
    \* ---- client connect attempt ----
    cpc,              \* phase of the attempt
    http_bootstrap,   \* struct aws_http_client_bootstrap
    cchannel,         \* the client's transport channel
    cconn,            \* the client's aws_http_connection
    last_error,       \* aws_last_error() of the event-loop thread
    connect_result,   \* return value of aws_http_client_connect_internal
    connect_options,  \* the options it was called with
    client_trace,     \* history: the callbacks fired and the calls made on the bootstrap and the channel, in order
    setup_calls,      \* history of on_setup invocations
    shutdown_calls,   \* history of on_shutdown invocations
    setup_outcome,    \* which branch the setup callback took
    bootstrap_frees,  \* aws_mem_release(http_bootstrap) count
    cuser_refs,       \* references to the client connection the user holds
    \* ---- server ----
    server,           \* struct aws_http_server (without synced_data)
    npc,              \* position of aws_http_server_new
    lock_owner,       \* thread holding server->synced_data.lock
    is_shutting_down, \* server->synced_data.is_shutting_down
    channel_to_connection_map, \* keys of server->synced_data.channel_to_connection_map
    listener,         \* the socket listener of the server bootstrap
    acc,              \* per channel: s_server_bootstrap_on_accept_channel_setup's frame
    shut,             \* per channel: s_server_bootstrap_on_accept_channel_shutdown's frame
    schan,            \* per channel: the accepted transport channel
    sconn,            \* per channel: the server connection created for it
    rel,              \* per thread: aws_http_server_release's frame
    incoming_calls,   \* per channel: history of on_incoming_connection invocations
    conn_shutdown_calls, \* per channel: invocations of the connection's on_shutdown
    srv_counts,       \* how often each server-wide effect happened
    registration,     \* per channel: what its registration step met
    server_uaf,       \* a thread touched the server after it was freed
    accesses,         \* history of the accesses to the flag and the map: by whom, under what lock
    socket_reads,     \* history of the accept callback's reads of server->socket: what they found
    \* ---- one connection shared by several threads ----
    refcount,         \* connection->refcount
    ref_channel,      \* connection->channel_slot->channel
    held,             \* per thread: references the thread owns
    ref_frame,        \* per thread: aws_http_connection_release's frame
    acquires,         \* aws_http_connection_acquire calls made
    final_releases,   \* history of final-release actions: who, and what it saw
    ref_destroys,     \* history of destructions of the connection: the count then
    \* ---- stream ids of one connection ----
    next_stream_id,   \* connection->next_stream_id, a uint32_t
    stream_first,     \* the value next_stream_id was created with
    stream_calls,     \* aws_http_connection_get_next_stream_id calls since creation
    stream_returns,   \* history of the calls made here: what each saw and returned
    \* ---- one call of s_connection_new ----
    new_args,         \* its arguments and what its collaborators answer
    new_result,       \* what it returned, raised and left behind
    new_calls,        \* the calls it made, in order
    \* ---- calls of the user on one connection ----
    api_conn,         \* the aws_http_connection the calls are made on
    api_log,          \* history of the calls: arguments, what was returned and raised
    api_impl,         \* the calls the protocol implementation received through the vtable
    \* ---- the stream pipeline of one HTTP/1.1 connection ----
    stream_list,      \* thread_data.stream_list: streams being worked on, in order
    outgoing_stream,  \* thread_data.outgoing_stream: the stream being sent, or NoStream
    new_client_stream_list,  \* synced_data.new_client_stream_list
    is_outgoing_stream_task_active,  \* synced_data.is_outgoing_stream_task_active
    outgoing_stream_task,    \* whether outgoing_stream_task is scheduled
    h1_streams,       \* per stream: submitted, outgoing message done, incoming message done
    outgoing_visits,  \* history: the streams outgoing_stream was pointed at, in order
    completed,        \* history: the streams removed from stream_list, in order
    \* ---- window updates of one HTTP/1.1 connection ----
    window_update_size,  \* synced_data.window_update_size
    window_update_task,  \* how many times window_update_task is scheduled and not yet run
    win,              \* per calling thread: where its update_window call stands
    window_applied    \* history: the increments applied to the channel's read window

cvars == <<cpc, http_bootstrap, cchannel, cconn, last_error, connect_result,
           connect_options, client_trace,
           setup_calls, shutdown_calls, setup_outcome, bootstrap_frees,
           cuser_refs>>

svars == <<server, npc, lock_owner, is_shutting_down, channel_to_connection_map,
           listener, acc, shut, schan, sconn, rel, incoming_calls,
           conn_shutdown_calls, srv_counts, registration, server_uaf, accesses,
           socket_reads>>

rvars == <<refcount, ref_channel, held, ref_frame, acquires, final_releases,
           ref_destroys>>

tvars == <<next_stream_id, stream_first, stream_calls, stream_returns>>

nvars == <<new_args, new_result, new_calls>>

avars == <<api_conn, api_log, api_impl>>

hvars == <<stream_list, outgoing_stream, new_client_stream_list,
           is_outgoing_stream_task_active, outgoing_stream_task, h1_streams,
           outgoing_visits, completed>>

wvars == <<window_update_size, window_update_task, win, window_applied>>

vars == <<cvars, svars, rvars, tvars, nvars, avars, hvars, wvars>>

\* What the steps of each part leave alone.
ClientRest == <<svars, rvars, tvars, nvars, avars, hvars, wvars>>
ServerRest == <<cvars, rvars, tvars, nvars, avars, hvars, wvars>>
RefRest == <<cvars, svars, tvars, nvars, avars, hvars, wvars>>
StreamRest == <<cvars, svars, rvars, nvars, avars, hvars, wvars>>
NewRest == <<cvars, svars, rvars, tvars, avars, hvars, wvars>>
ApiRest == <<cvars, svars, rvars, tvars, nvars, hvars, wvars>>
PipelineRest == <<cvars, svars, rvars, tvars, nvars, avars, wvars>>
WindowRest == <<cvars, svars, rvars, tvars, nvars, avars, hvars>>

(***************************************************************************)
(* Transport channel collaborator (aws-c-io).                              *)
(***************************************************************************)
NoChannel == [exists |-> FALSE, shutdown |-> NoValue, stats_handler |-> FALSE,
              holds |-> 0, requested |-> {}]

\* aws_channel_shutdown: the first request decides the reason; later
\* requests on a channel already shutting down change nothing.
aws_channel_shutdown(ch, error_code) ==
    [ch EXCEPT !.shutdown = IF @ = NoValue THEN error_code ELSE @,
               !.requested = @ \cup {error_code}]

\* aws_channel_release_hold: drops one hold on the channel.
aws_channel_release_hold(ch) == [ch EXCEPT !.holds = ch.holds - 1]

(***************************************************************************)
(* s_connection_new: pick the HTTP version, construct the connection and   *)
(* install it in a new slot at the end of the channel.  `e` carries the    *)
(* outcomes of the collaborator calls it makes.                            *)
(***************************************************************************)
ConnNewEnv ==
    [slot_new_ok : BOOLEAN, insert_ok : BOOLEAN, tls_handler : BOOLEAN,
     alpn : AlpnResults, ctor_ok : BOOLEAN, set_handler_ok : BOOLEAN,
     handler_stored : BOOLEAN]

ConnNewResult(conn, ver, raised, slot, inserted, removed, direct, bySlot, hook) ==
    [connection |-> conn, http_version |-> ver, raised |-> raised,
     slot_created |-> slot, slot_inserted |-> inserted, slot_removed |-> removed,
     destroyed_direct |-> direct, destroyed_by_slot |-> bySlot,
     hook_calls |-> hook]

\* Variant: every ALPN string that is not "http/1.1" is taken for HTTP/2.
s_negotiated_version_H2Default(is_using_tls, alpn) ==
    IF is_using_tls /\ alpn # ""
    THEN IF alpn = s_alpn_protocol_http_1_1 THEN AWS_HTTP_VERSION_1_1
         ELSE AWS_HTTP_VERSION_2
    ELSE AWS_HTTP_VERSION_1_1

\* The version decided at lines 108-136 (only reached once the slot is in).
s_negotiated_version(is_using_tls, alpn) ==
    IF is_using_tls /\ alpn # ""
    THEN IF alpn = s_alpn_protocol_http_1_1 THEN AWS_HTTP_VERSION_1_1
         ELSE IF alpn = s_alpn_protocol_http_2 THEN AWS_HTTP_VERSION_2
         ELSE AWS_HTTP_VERSION_1_1
    ELSE AWS_HTTP_VERSION_1_1

\* Variant: with no TLS handler to ask, the version stays the default.
TlsHandlerMissing_Defaults(is_using_tls, e) == FALSE

\* Lines 111-117: TLS is in use and the slot to the left is missing or has
\* no handler.
TlsHandlerMissing(is_using_tls, e) == is_using_tls /\ ~e.tls_handler

s_connection_new(is_server, is_using_tls, e) ==
    IF ~e.slot_new_ok
    THEN \* error: no slot to remove
         ConnNewResult(FALSE, NoValue, AWS_ERROR_OOM, FALSE, FALSE, FALSE, 0, 0, 0)
    ELSE IF ~e.insert_ok
    THEN ConnNewResult(FALSE, NoValue, AWS_ERROR_INVALID_STATE, TRUE, FALSE, TRUE, 0, 0, 0)
    ELSE IF TlsHandlerMissing(is_using_tls, e)
    THEN ConnNewResult(FALSE, NoValue, AWS_ERROR_INVALID_STATE, TRUE, TRUE, TRUE, 0, 0, 0)
    ELSE LET version == s_negotiated_version(is_using_tls, e.alpn) IN
         IF ~e.ctor_ok
         THEN ConnNewResult(FALSE, version, AWS_ERROR_OOM, TRUE, TRUE, TRUE, 0, 0, 0)
         ELSE IF ~e.set_handler_ok
         THEN \* error: destroy the handler directly unless the slot owns it
              IF e.handler_stored
              THEN ConnNewResult(FALSE, version, AWS_ERROR_OOM, TRUE, TRUE, TRUE, 0, 1, 0)
              ELSE ConnNewResult(FALSE, version, AWS_ERROR_OOM, TRUE, TRUE, TRUE, 1, 0, 0)
         ELSE ConnNewResult(TRUE, version, NoValue, TRUE, TRUE, FALSE, 0, 0, 1)

\* Lines 139-155: the constructor the switch calls for a version and a role.
ConnectionConstructor(version, is_server) ==
    IF version = AWS_HTTP_VERSION_1_1
    THEN IF is_server THEN "aws_http_connection_new_http1_1_server"
                      ELSE "aws_http_connection_new_http1_1_client"
    ELSE IF is_server THEN "aws_http_connection_new_http2_server"
                      ELSE "aws_http_connection_new_http2_client"

\* Variant: the error path destroys whatever connection object exists.
ErrorDestroysHandler_Always(slot_handler, connection) == connection

\* Line 198: the error path destroys the connection object itself only when
\* the slot has not taken it as its handler.
ErrorDestroysHandler(slot_handler, connection) == ~slot_handler /\ connection

\* Lines 196-203: the calls of the error path.
ConnNewErrorCalls(slot, slot_handler, connection) ==
    IF slot
    THEN (IF ErrorDestroysHandler(slot_handler, connection)
          THEN <<"aws_channel_handler_destroy">> ELSE <<>>)
         \o <<"aws_channel_slot_remove">>
    ELSE <<>>

\* Variant: the hook is invoked whether or not the handler was set.
InstalledHookCalls_Unconditional(set_handler_ok) == <<"on_channel_handler_installed">>

\* Lines 179-192: the hook is reached only past the set_handler check.
InstalledHookCalls(set_handler_ok) ==
    IF set_handler_ok THEN <<"on_channel_handler_installed">> ELSE <<>>

\* The calls s_connection_new makes, in order, for the same arguments and
\* collaborator outcomes.
s_connection_new_calls(is_server, is_using_tls, e) ==
    IF ~e.slot_new_ok
    THEN <<"aws_channel_slot_new">> \o ConnNewErrorCalls(FALSE, FALSE, FALSE)
    ELSE IF ~e.insert_ok
    THEN <<"aws_channel_slot_new", "aws_channel_slot_insert_end">>
             \o ConnNewErrorCalls(TRUE, FALSE, FALSE)
    ELSE IF TlsHandlerMissing(is_using_tls, e)
    THEN <<"aws_channel_slot_new", "aws_channel_slot_insert_end">>
             \o ConnNewErrorCalls(TRUE, FALSE, FALSE)
    ELSE LET version == s_negotiated_version(is_using_tls, e.alpn)
             upto_ctor ==
                 <<"aws_channel_slot_new", "aws_channel_slot_insert_end">>
                     \o (IF is_using_tls THEN <<"aws_tls_handler_protocol">> ELSE <<>>)
                     \o <<ConnectionConstructor(version, is_server)>>
         IN
         IF ~e.ctor_ok
         THEN upto_ctor \o ConnNewErrorCalls(TRUE, FALSE, FALSE)
         ELSE upto_ctor \o <<"aws_channel_slot_set_handler">>
                  \o InstalledHookCalls(e.set_handler_ok)
                  \o (IF e.set_handler_ok THEN <<>>
                      ELSE ConnNewErrorCalls(TRUE, e.handler_stored, TRUE))

\* Every result s_connection_new can return for a role and TLS setting.
ConnNewResults(is_server, is_using_tls) ==
    {s_connection_new(is_server, is_using_tls, e) : e \in ConnNewEnv}

(***************************************************************************)
(* Client connect bootstrap.                                               *)
(***************************************************************************)
NoBootstrap == [state |-> "none", on_setup |-> FALSE, on_shutdown |-> FALSE,
                connection |-> FALSE, monitoring |-> FALSE, is_using_tls |-> FALSE]

NoConnection == [state |-> "none", refcount |-> 0, http_version |-> NoValue,
                 user_data_set |-> FALSE]

ClientOptions ==
    [present : BOOLEAN, self_size : {0, 1}, allocator : BOOLEAN,
     host_name_len : {0, 1}, socket_options : BOOLEAN, on_setup : BOOLEAN,
     on_shutdown : BOOLEAN, num_initial_settings : {0, 1},
     initial_settings_array : BOOLEAN, monitoring : {"absent", "valid", "invalid"},
     tls : BOOLEAN]

\* A NULL options pointer.
NoClientOptions ==
    [present |-> FALSE, self_size |-> 0, allocator |-> FALSE, host_name_len |-> 0,
     socket_options |-> FALSE, on_setup |-> FALSE, on_shutdown |-> FALSE,
     num_initial_settings |-> 0, initial_settings_array |-> FALSE,
     monitoring |-> "absent", tls |-> FALSE]

\* Variant: an empty host name is let through.
s_validate_http_client_connection_options_AnyHost(o) ==
    /\ o.present
    /\ o.self_size # 0
    /\ o.allocator
    /\ o.socket_options
    /\ o.on_setup
    /\ ~(o.num_initial_settings # 0 /\ ~o.initial_settings_array)
    /\ ~(o.monitoring # "absent" /\ o.monitoring # "valid")

\* s_validate_http_client_connection_options: TRUE when it returns success.
s_validate_http_client_connection_options(o) ==
    /\ o.present
    /\ o.self_size # 0
    /\ o.allocator
    /\ o.host_name_len # 0
    /\ o.socket_options
    /\ o.on_setup
    /\ ~(o.num_initial_settings # 0 /\ ~o.initial_settings_array)
    /\ ~(o.monitoring # "absent" /\ o.monitoring # "valid")

ClientInit ==
    /\ cpc = "idle"
    /\ http_bootstrap = NoBootstrap
    /\ cchannel = NoChannel
    /\ cconn = NoConnection
    /\ last_error = AWS_ERROR_SUCCESS
    /\ connect_result = NoValue
    /\ connect_options = NoClientOptions
    /\ client_trace = <<>>
    /\ setup_calls = <<>>
    /\ shutdown_calls = <<>>
    /\ setup_outcome = NoValue
    /\ bootstrap_frees = 0
    /\ cuser_refs = 0

\* aws_http_client_connect_internal
aws_http_client_connect_internal(o, alloc_ok, channel_ok) ==
    /\ cpc = "idle"
    /\ connect_options' = o
    /\ client_trace' =
           IF s_validate_http_client_connection_options(o) /\ alloc_ok /\ ~channel_ok
           THEN <<"aws_mem_release">> ELSE <<>>
    /\ IF ~s_validate_http_client_connection_options(o)
       THEN /\ connect_result' = "AWS_OP_ERR"
            /\ last_error' = AWS_ERROR_INVALID_ARGUMENT
            /\ cpc' = "connect_failed"
            /\ UNCHANGED <<http_bootstrap, bootstrap_frees>>
       ELSE IF ~alloc_ok
       THEN /\ connect_result' = "AWS_OP_ERR"
            /\ last_error' = AWS_ERROR_OOM
            /\ cpc' = "connect_failed"
            /\ UNCHANGED <<http_bootstrap, bootstrap_frees>>
       ELSE IF ~channel_ok
       THEN \* new_socket_channel failed: the bootstrap is released here
            /\ connect_result' = "AWS_OP_ERR"
            /\ last_error' = AWS_IO_SOCKET_CLOSED
            /\ cpc' = "connect_failed"
            /\ http_bootstrap' = [state |-> "freed", on_setup |-> o.on_setup,
                                  on_shutdown |-> o.on_shutdown, connection |-> FALSE,
                                  monitoring |-> (o.monitoring = "valid"),
                                  is_using_tls |-> o.tls]
            /\ bootstrap_frees' = bootstrap_frees + 1
       ELSE /\ connect_result' = "AWS_OP_SUCCESS"
            /\ cpc' = "connecting"
            /\ http_bootstrap' = [state |-> "live", on_setup |-> o.on_setup,
                                  on_shutdown |-> o.on_shutdown, connection |-> FALSE,
                                  monitoring |-> (o.monitoring = "valid"),
                                  is_using_tls |-> o.tls]
            /\ UNCHANGED <<last_error, bootstrap_frees>>
    /\ UNCHANGED <<cchannel, cconn, setup_calls, shutdown_calls, setup_outcome,
                   cuser_refs>>

Connect ==
    \E o \in ClientOptions, alloc_ok \in BOOLEAN, channel_ok \in BOOLEAN :
        aws_http_client_connect_internal(o, alloc_ok, channel_ok)

\* Lines 725-730: the failed setup is reported, then the bootstrap released.
SetupFailureSteps == <<"on_setup", "aws_mem_release">>

\* s_client_bootstrap_on_channel_setup, error_code != 0 (channel is NULL)
s_client_bootstrap_on_channel_setup_failed(error_code) ==
    /\ cpc = "connecting"
    /\ http_bootstrap.state = "live"
    /\ setup_calls' = Append(setup_calls,
           [connection |-> FALSE, error_code |-> error_code, from |-> "setup"])
    /\ http_bootstrap' = [http_bootstrap EXCEPT !.state = "freed"]
    /\ bootstrap_frees' = bootstrap_frees + 1
    /\ setup_outcome' = "transport_failure"
    /\ cpc' = "done"
    /\ client_trace' = client_trace \o SetupFailureSteps
    /\ UNCHANGED <<cchannel, cconn, last_error, connect_result, connect_options,
                   shutdown_calls, cuser_refs>>

SetupTransportFailure ==
    \E error_code \in TransportErrors :
        s_client_bootstrap_on_channel_setup_failed(error_code)

\* Variant: the stored setup callback is left set after it was called.
SetupDelivered_NotCleared(b) == b

\* Line 782: the stored setup callback is cleared once it has been called.
SetupDelivered(b) == [b EXCEPT !.on_setup = FALSE]

\* Variant: the statistics handler is attached whatever the options say.
MonitoringIsOn_Always(b) == TRUE

\* Line 754: aws_http_connection_monitoring_options_is_valid, which after
\* the validation at connect time says whether monitoring is on.
MonitoringIsOn(b) == b.monitoring

\* Lines 754-782: what the setup callback does once the connection exists:
\* create and attach the statistics handler if monitoring is on, then
\* report success; a handler that cannot be created sends it to the error
\* label.
SetupSuccessSteps(b, monitor_ok) ==
    IF MonitoringIsOn(b)
    THEN IF monitor_ok
         THEN <<"aws_channel_set_statistics_handler", "on_setup">>
         ELSE <<"aws_channel_shutdown">>
    ELSE <<"on_setup">>

\* s_client_bootstrap_on_channel_setup, error_code == 0 (channel is set).
\* `pending` is a shutdown some other handler of the channel had already
\* requested when the callback ran (NoValue when there was none).
s_client_bootstrap_on_channel_setup(r, monitor_ok, pending) ==
    /\ cpc = "connecting"
    /\ http_bootstrap.state = "live"
    /\ LET channel == [exists |-> TRUE, shutdown |-> pending,
                       stats_handler |-> FALSE, holds |-> 0,
                       requested |-> IF pending = NoValue THEN {} ELSE {pending}]
       IN
       IF ~r.connection
       THEN \* goto error
            /\ last_error' = r.raised
            /\ cchannel' = aws_channel_shutdown(channel, r.raised)
            /\ setup_outcome' = "construction_failure"
            /\ client_trace' = Append(client_trace, "aws_channel_shutdown")
            /\ UNCHANGED <<http_bootstrap, cconn, setup_calls, cuser_refs>>
       ELSE IF MonitoringIsOn(http_bootstrap) /\ ~monitor_ok
       THEN \* statistics handler could not be created: goto error
            /\ last_error' = AWS_ERROR_OOM
            /\ cchannel' = aws_channel_shutdown([channel EXCEPT !.holds = 1], AWS_ERROR_OOM)
            /\ http_bootstrap' = [http_bootstrap EXCEPT !.connection = TRUE]
            /\ cconn' = [state |-> "live", refcount |-> 1,
                         http_version |-> r.http_version, user_data_set |-> FALSE]
            /\ setup_outcome' = "construction_failure"
            /\ client_trace' = client_trace \o SetupSuccessSteps(http_bootstrap, monitor_ok)
            /\ UNCHANGED <<setup_calls, cuser_refs>>
       ELSE /\ cchannel' = [channel EXCEPT !.holds = 1,
                                           !.stats_handler = MonitoringIsOn(http_bootstrap)]
            /\ client_trace' = client_trace \o SetupSuccessSteps(http_bootstrap, monitor_ok)
            /\ cconn' = [state |-> "live", refcount |-> 1,
                         http_version |-> r.http_version, user_data_set |-> TRUE]
            /\ setup_calls' = Append(setup_calls,
                   [connection |-> TRUE, error_code |-> AWS_ERROR_SUCCESS,
                    from |-> "setup"])
            /\ http_bootstrap' =
                   SetupDelivered([http_bootstrap EXCEPT !.connection = TRUE])
            /\ setup_outcome' = "success"
            /\ cuser_refs' = 1
            /\ UNCHANGED last_error
    /\ cpc' = "channel_up"
    /\ UNCHANGED <<connect_result, connect_options, shutdown_calls, bootstrap_frees>>

SetupTransportSuccess ==
    \E r \in ConnNewResults(FALSE, http_bootstrap.is_using_tls),
       monitor_ok \in BOOLEAN, pending \in ShutdownReasons \cup {NoValue} :
        s_client_bootstrap_on_channel_setup(r, monitor_ok, pending)

\* Variant: the two branches tested in the opposite order.
ShutdownNotification_ShutdownFirst(b) ==
    IF b.on_shutdown THEN "on_shutdown"
    ELSE IF b.on_setup THEN "on_setup"
    ELSE NoValue

\* Lines 807-830: which user callback the shutdown callback fires.
ShutdownNotification(b) ==
    IF b.on_setup THEN "on_setup"
    ELSE IF b.on_shutdown THEN "on_shutdown"
    ELSE NoValue

\* Variant: the shutdown reason is passed on as it came.
FailedSetupErrorCode_PassThrough(error_code) == error_code

\* Lines 808-811: a failed setup never reports a zero error code.
FailedSetupErrorCode(error_code) ==
    IF error_code = AWS_ERROR_SUCCESS THEN AWS_ERROR_UNKNOWN ELSE error_code

\* Variant: the bootstrap is released before the user is told.
ShutdownSteps_ReleaseFirst(b) ==
    <<"aws_mem_release">>
        \o (IF ShutdownNotification(b) = NoValue THEN <<>> ELSE <<ShutdownNotification(b)>>)

\* Lines 807-833: the user is told, then the bootstrap is released.
ShutdownSteps(b) ==
    (IF ShutdownNotification(b) = NoValue THEN <<>> ELSE <<ShutdownNotification(b)>>)
        \o <<"aws_mem_release">>

\* s_client_bootstrap_on_channel_shutdown
s_client_bootstrap_on_channel_shutdown(error_code) ==
    /\ cpc = "channel_up"
    /\ http_bootstrap.state = "live"
    /\ LET fire == ShutdownNotification(http_bootstrap) IN
       /\ setup_calls' =
             IF fire = "on_setup"
             THEN Append(setup_calls,
                         [connection |-> FALSE,
                          error_code |-> FailedSetupErrorCode(error_code),
                          from |-> "shutdown"])
             ELSE setup_calls
       /\ shutdown_calls' =
             IF fire = "on_shutdown"
             THEN Append(shutdown_calls,
                         [connection |-> http_bootstrap.connection,
                          error_code |-> error_code])
             ELSE shutdown_calls
    /\ http_bootstrap' = [http_bootstrap EXCEPT !.state = "freed"]
    /\ bootstrap_frees' = bootstrap_frees + 1
    /\ cpc' = "done"
    /\ client_trace' = client_trace \o ShutdownSteps(http_bootstrap)
    /\ UNCHANGED <<cchannel, cconn, last_error, connect_result, connect_options,
                   setup_outcome, cuser_refs>>

\* The channel reports its shutdown once one was requested; the reason it
\* passes is the one the shutdown was requested with.
ClientChannelShutdown ==
    /\ cchannel.exists
    /\ cchannel.shutdown # NoValue
    /\ s_client_bootstrap_on_channel_shutdown(cchannel.shutdown)

\* Another handler of the channel (socket closed, TLS close-notify) asks for
\* shutdown of the established channel.
ClientTransportShutdown ==
    /\ cpc = "channel_up"
    /\ cchannel.shutdown = NoValue
    /\ \E reason \in ShutdownReasons :
           cchannel' = aws_channel_shutdown(cchannel, reason)
    /\ UNCHANGED <<cpc, http_bootstrap, cconn, last_error, connect_result, connect_options, client_trace,
                   setup_calls, shutdown_calls, setup_outcome, bootstrap_frees,
                   cuser_refs>>

\* aws_http_connection_release as one step of a single caller: the
\* decrement, and the final-release action when the count was 1.
ReleasedConnection(conn) == [conn EXCEPT !.refcount = conn.refcount - 1]

ReleasedChannel(conn, ch) ==
    IF conn.refcount = 1
    THEN aws_channel_release_hold(aws_channel_shutdown(ch, AWS_ERROR_SUCCESS))
    ELSE ch

\* The user, given the connection by on_setup, acquires or releases it.
ClientUserAcquire ==
    /\ cuser_refs \in 1..(MaxUserRefs - 1)
    /\ cconn' = [cconn EXCEPT !.refcount = cconn.refcount + 1]
    /\ cuser_refs' = cuser_refs + 1
    /\ UNCHANGED <<cpc, http_bootstrap, cchannel, last_error, connect_result, connect_options, client_trace,
                   setup_calls, shutdown_calls, setup_outcome, bootstrap_frees>>

ClientUserRelease ==
    /\ cuser_refs > 0
    /\ cconn' = ReleasedConnection(cconn)
    /\ cchannel' = ReleasedChannel(cconn, cchannel)
    /\ cuser_refs' = cuser_refs - 1
    /\ UNCHANGED <<cpc, http_bootstrap, last_error, connect_result, connect_options, client_trace,
                   setup_calls, shutdown_calls, setup_outcome, bootstrap_frees>>

ClientNext ==
    \/ Connect /\ UNCHANGED ClientRest
    \/ SetupTransportFailure /\ UNCHANGED ClientRest
    \/ SetupTransportSuccess /\ UNCHANGED ClientRest
    \/ ClientChannelShutdown /\ UNCHANGED ClientRest
    \/ ClientTransportShutdown /\ UNCHANGED ClientRest
    \/ ClientUserAcquire /\ UNCHANGED ClientRest
    \/ ClientUserRelease /\ UNCHANGED ClientRest

(***************************************************************************)
(* Server: aws_http_server_new, the accept and channel-shutdown callbacks, *)
(* aws_http_server_release and the listener-destroy callback.  Each        *)
(* callback is cut where it takes or gives up the server's lock and where  *)
(* it calls the user, so that other threads interleave at those points.    *)
(***************************************************************************)
NoOwner == <<>>
NewThread == <<"new">>
ReleaseThread(r) == <<"release", r>>
ChannelThread(c) == <<"channel", c>>
ListenerThread == <<"listener">>

NoServer == [state |-> "none", socket |-> FALSE, on_destroy_complete |-> FALSE,
             is_using_tls |-> FALSE]

NoAcceptFrame == [pc |-> "idle", error_code |-> AWS_ERROR_SUCCESS, put_err |-> FALSE,
                  connection |-> FALSE, channel |-> FALSE, user_cb_invoked |-> FALSE,
                  raised |-> NoValue, during_new |-> FALSE]

\* The frame of a callback that has returned holds nothing.
ReturnedFrame == [NoAcceptFrame EXCEPT !.pc = "returned"]

NoShutdownFrame == [pc |-> "idle", was_present |-> FALSE]

NoServerConnection == [state |-> "none", refcount |-> 0, on_incoming_request |-> FALSE,
                       on_shutdown |-> FALSE]

NoReleaseFrame == [pc |-> "idle"]

\* No accept of the channel has reached lines 428-438 yet.
NoRegistration == [reached |-> FALSE, shutting_down |-> FALSE, put_ok |-> FALSE]

NoCounts == [transitions |-> 0, broadcasts |-> 0, broadcast_shutdowns |-> 0,
             listener_destroys |-> 0, destroy_complete |-> 0, clean_ups |-> 0]

ServerInit ==
    /\ server = NoServer
    /\ npc = "idle"
    /\ lock_owner = NoOwner
    /\ is_shutting_down = FALSE
    /\ channel_to_connection_map = {}
    /\ listener = "none"
    /\ acc = [c \in Channels |-> NoAcceptFrame]
    /\ shut = [c \in Channels |-> NoShutdownFrame]
    /\ schan = [c \in Channels |-> NoChannel]
    /\ sconn = [c \in Channels |-> NoServerConnection]
    /\ rel = [r \in Releasers |-> NoReleaseFrame]
    /\ incoming_calls = [c \in Channels |-> <<>>]
    /\ conn_shutdown_calls = [c \in Channels |-> 0]
    /\ srv_counts = NoCounts
    /\ registration = [c \in Channels |-> NoRegistration]
    /\ server_uaf = FALSE
    /\ accesses = {}
    /\ socket_reads = {}

\* Variant: the lock is taken without waiting for its holder.
s_server_lock_synced_data_NoWait(thread) ==
    lock_owner' = thread

\* s_server_lock_synced_data / s_server_unlock_synced_data
s_server_lock_synced_data(thread) ==
    /\ lock_owner = NoOwner
    /\ lock_owner' = thread

\* Variant: the function returns with the mutex still locked.
s_server_unlock_synced_data_Kept(thread) ==
    /\ lock_owner = thread
    /\ UNCHANGED lock_owner

s_server_unlock_synced_data(thread) ==
    /\ lock_owner = thread
    /\ lock_owner' = NoOwner

\* One access to server->synced_data.is_shutting_down or
\* server->synced_data.channel_to_connection_map: the function that makes
\* it, whether its thread holds the lock, and whether another thread does.
SharedAccess(site, thread) ==
    [site |-> site,
     holds_lock |-> lock_owner = thread,
     other_holds_lock |-> lock_owner # NoOwner /\ lock_owner # thread]

\* One read of server->socket by the accept callback of a channel: where,
\* what was in server->socket, and whether the callback had begun before
\* aws_http_server_new returned.
SocketRead(site, c) ==
    [site |-> site, socket |-> server.socket, during_new |-> acc[c].during_new]

\* aws_http_server_new, up to and including taking the lock (lines 562-611).
ServerNewBegin ==
    /\ npc = "idle"
    /\ \E options_ok \in BOOLEAN, init_ok \in BOOLEAN,
          on_destroy_complete \in BOOLEAN, tls \in BOOLEAN :
          IF options_ok /\ init_ok
          THEN /\ server' = [state |-> "creating", socket |-> FALSE,
                             on_destroy_complete |-> on_destroy_complete,
                             is_using_tls |-> tls]
               /\ s_server_lock_synced_data(NewThread)
               /\ npc' = "new_listener"
          ELSE \* invalid options, or calloc / mutex / hash table failed
               /\ server' = [NoServer EXCEPT !.state = "create_failed"]
               /\ npc' = "returned"
               /\ UNCHANGED lock_owner
    /\ UNCHANGED <<is_shutting_down, channel_to_connection_map, listener, acc, shut,
                   schan, sconn, rel, incoming_calls, conn_shutdown_calls,
                   srv_counts, registration, server_uaf, accesses, socket_reads>>

\* aws_server_bootstrap_new_socket_listener (line 626): once it has started
\* the listener, accept callbacks may fire before its result is stored.
ServerNewListener ==
    /\ npc = "new_listener"
    /\ \E ok \in BOOLEAN :
          /\ listener' = IF ok THEN "listening" ELSE "none"
          /\ npc' = "store_socket"
    /\ UNCHANGED <<server, lock_owner, is_shutting_down, channel_to_connection_map,
                   acc, shut, schan, sconn, rel, incoming_calls,
                   conn_shutdown_calls, srv_counts, registration, server_uaf, accesses, socket_reads>>

\* Variant: the failure path goes through s_http_server_clean_up.
FailedCreationCounts_CleanUp(counts, srv) ==
    [counts EXCEPT !.destroy_complete = @ + (IF srv.on_destroy_complete THEN 1 ELSE 0),
                   !.clean_ups = @ + 1]

\* Lines 649-655: the failure path releases the map, the lock and the
\* memory itself; it does not call s_http_server_clean_up.
FailedCreationCounts(counts, srv) == counts

\* Lines 626-655: store the listener in server->socket, unlock, and either
\* return the server or undo its creation.
ServerNewFinish ==
    /\ npc = "store_socket"
    /\ s_server_unlock_synced_data(NewThread)
    /\ IF listener = "listening"
       THEN /\ server' = [server EXCEPT !.state = "live", !.socket = TRUE]
            /\ UNCHANGED srv_counts
       ELSE /\ server' = [server EXCEPT !.state = "create_failed"]
            /\ srv_counts' = FailedCreationCounts(srv_counts, server)
    /\ npc' = "returned"
    /\ UNCHANGED <<is_shutting_down, channel_to_connection_map, listener, acc, shut,
                   schan, sconn, rel, incoming_calls, conn_shutdown_calls,
                   registration, server_uaf, accesses, socket_reads>>

\* Variant: the flag is not looked at.
RejectWhenShuttingDown_Ignored(flag, error_code) == error_code

\* Lines 431-433: an accept that finds the server shutting down is refused.
RejectWhenShuttingDown(flag, error_code) ==
    IF flag THEN AWS_ERROR_HTTP_CONNECTION_CLOSED ELSE error_code

\* Variant: the error path reports error_code as it stands.
AcceptErrorCode_NoLastError(f) == f.error_code

\* Lines 488-490: the error the error path reports.
AcceptErrorCode(f) ==
    IF f.error_code = AWS_ERROR_SUCCESS THEN f.raised ELSE f.error_code

\* s_server_bootstrap_on_accept_channel_setup, lines 387-426: the incoming
\* error check and the creation of the connection.
AcceptBegin(c) ==
    /\ listener \in {"listening", "destroy_requested"}
    /\ acc[c].pc = "idle"
    /\ \E error_code \in {AWS_ERROR_SUCCESS, AWS_IO_SOCKET_CLOSED},
          r \in ConnNewResults(TRUE, server.is_using_tls) :
          IF error_code # AWS_ERROR_SUCCESS
          THEN \* no channel comes with a failed accept
               /\ acc' = [acc EXCEPT ![c] = [NoAcceptFrame EXCEPT
                              !.during_new = (npc # "returned"),
                              !.pc = "error", !.error_code = error_code]]
               /\ UNCHANGED <<schan, sconn>>
          ELSE IF ~r.connection
               THEN /\ acc' = [acc EXCEPT ![c] = [NoAcceptFrame EXCEPT
                                   !.during_new = (npc # "returned"),
                                   !.pc = "error", !.channel = TRUE,
                                   !.raised = r.raised]]
                    /\ schan' = [schan EXCEPT ![c] = [NoChannel EXCEPT !.exists = TRUE]]
                    /\ UNCHANGED sconn
               ELSE /\ acc' = [acc EXCEPT ![c] = [NoAcceptFrame EXCEPT
                                   !.during_new = (npc # "returned"),
                                   !.pc = "lock", !.channel = TRUE,
                                   !.connection = TRUE]]
                    /\ schan' = [schan EXCEPT ![c] = [NoChannel EXCEPT
                                     !.exists = TRUE, !.holds = 1]]
                    /\ sconn' = [sconn EXCEPT ![c] = [NoServerConnection EXCEPT
                                     !.state = "live", !.refcount = 1]]
    /\ UNCHANGED <<server, npc, lock_owner, is_shutting_down,
                   channel_to_connection_map, listener, shut, rel, incoming_calls,
                   conn_shutdown_calls, srv_counts, registration, server_uaf, accesses, socket_reads>>

\* Line 430: take the lock.
AcceptLock(c) ==
    /\ acc[c].pc = "lock"
    /\ s_server_lock_synced_data(ChannelThread(c))
    /\ acc' = [acc EXCEPT ![c].pc = "critical"]
    /\ UNCHANGED <<server, npc, is_shutting_down, channel_to_connection_map,
                   listener, shut, schan, sconn, rel, incoming_calls,
                   conn_shutdown_calls, srv_counts, registration, server_uaf, accesses, socket_reads>>

\* Lines 431-458: the critical section, the unlock and the two checks that
\* follow it.
AcceptCritical(c) ==
    /\ acc[c].pc = "critical"
    /\ \E put_ok \in BOOLEAN :
          LET error_code == RejectWhenShuttingDown(is_shutting_down, acc[c].error_code)
              put_err == error_code = AWS_ERROR_SUCCESS /\ ~put_ok
          IN
          \* aws_hash_table_put is only called, and can only fail, on this path
          /\ error_code # AWS_ERROR_SUCCESS => put_ok
          /\ registration' = [registration EXCEPT ![c] =
                 [reached |-> TRUE,
                  shutting_down |-> is_shutting_down,
                  put_ok |-> error_code = AWS_ERROR_SUCCESS /\ put_ok]]
          /\ channel_to_connection_map' =
                 IF error_code = AWS_ERROR_SUCCESS /\ put_ok
                 THEN channel_to_connection_map \cup {c}
                 ELSE channel_to_connection_map
          /\ acc' = [acc EXCEPT ![c] = [@ EXCEPT
                         !.error_code = error_code,
                         !.put_err = put_err,
                         !.raised = IF put_err THEN AWS_ERROR_OOM ELSE @,
                         !.pc = IF error_code # AWS_ERROR_SUCCESS \/ put_err
                                THEN "error" ELSE "notify"]]
    /\ accesses' = accesses \cup
           {SharedAccess("s_server_bootstrap_on_accept_channel_setup", ChannelThread(c))}
    /\ socket_reads' =
           IF acc'[c].put_err
           THEN socket_reads \cup {SocketRead("Failed to store connection object", c)}
           ELSE socket_reads
    /\ s_server_unlock_synced_data(ChannelThread(c))
    /\ UNCHANGED <<server, npc, is_shutting_down, listener, shut, schan, sconn, rel,
                   incoming_calls, conn_shutdown_calls, srv_counts, server_uaf>>

\* Variant: the connection is not looked at after the callback.
ReactionRequired_Never(connection) == FALSE

\* Line 474: the callback returned and the connection has no handler.
ReactionRequired(connection) == ~connection.on_incoming_request

\* Lines 460-484: on_incoming_connection(connection, success); the user
\* configures the connection in the callback, or fails to.
AcceptNotify(c) ==
    /\ acc[c].pc = "notify"
    /\ socket_reads' = socket_reads \cup {SocketRead("server connection established", c)}
    /\ \E configures \in BOOLEAN, on_shutdown \in BOOLEAN :
          /\ incoming_calls' = [incoming_calls EXCEPT ![c] = Append(@,
                 [connection |-> TRUE, error_code |-> AWS_ERROR_SUCCESS])]
          /\ sconn' = [sconn EXCEPT ![c] = [@ EXCEPT
                 !.on_incoming_request = configures,
                 !.on_shutdown = configures /\ on_shutdown]]
          /\ acc' = [acc EXCEPT ![c] =
                 IF ~ReactionRequired(sconn'[c]) THEN ReturnedFrame
                 ELSE [@ EXCEPT !.user_cb_invoked = TRUE,
                                !.raised = AWS_ERROR_HTTP_REACTION_REQUIRED,
                                !.pc = "error"]]
    /\ UNCHANGED <<server, npc, lock_owner, is_shutting_down,
                   channel_to_connection_map, listener, shut, schan, rel,
                   conn_shutdown_calls, srv_counts, registration, server_uaf, accesses>>

\* Lines 486-504: the error path.
AcceptError(c) ==
    /\ acc[c].pc = "error"
    /\ LET error_code == AcceptErrorCode(acc[c])
           ch == IF acc[c].channel
                 THEN aws_channel_shutdown(schan[c], error_code) ELSE schan[c]
       IN
       /\ incoming_calls' =
              IF ~acc[c].user_cb_invoked
              THEN [incoming_calls EXCEPT ![c] = Append(@,
                       [connection |-> FALSE, error_code |-> error_code])]
              ELSE incoming_calls
       /\ schan' = [schan EXCEPT ![c] =
              IF acc[c].connection THEN ReleasedChannel(sconn[c], ch) ELSE ch]
       /\ sconn' = [sconn EXCEPT ![c] =
              IF acc[c].connection THEN ReleasedConnection(@) ELSE @]
       /\ acc' = [acc EXCEPT ![c] = ReturnedFrame]
    /\ UNCHANGED <<server, npc, lock_owner, is_shutting_down,
                   channel_to_connection_map, listener, shut, rel,
                   conn_shutdown_calls, srv_counts, registration, server_uaf, accesses, socket_reads>>

\* s_server_bootstrap_on_accept_channel_shutdown, line 537: the channel has
\* completed the shutdown that was requested of it; take the lock.
ShutdownLock(c) ==
    /\ schan[c].exists
    /\ schan[c].shutdown # NoValue
    /\ acc[c].pc = "returned"
    /\ shut[c].pc = "idle"
    /\ s_server_lock_synced_data(ChannelThread(c))
    /\ shut' = [shut EXCEPT ![c].pc = "critical"]
    /\ UNCHANGED <<server, npc, is_shutting_down, channel_to_connection_map,
                   listener, acc, schan, sconn, rel, incoming_calls,
                   conn_shutdown_calls, srv_counts, registration, server_uaf, accesses, socket_reads>>

\* Variant: the entry is looked up but left in the map.
MapAfterRemove_Kept(map, c) == map

\* Lines 538-539: aws_hash_table_remove leaves the map without the channel.
MapAfterRemove(map, c) == map \ {c}

\* Lines 538-540: remove the channel's entry, unlock.
ShutdownCritical(c) ==
    /\ shut[c].pc = "critical"
    /\ shut' = [shut EXCEPT ![c] = [pc |-> "notify",
                                    was_present |-> c \in channel_to_connection_map]]
    /\ channel_to_connection_map' = MapAfterRemove(channel_to_connection_map, c)
    /\ accesses' = accesses \cup
           {SharedAccess("s_server_bootstrap_on_accept_channel_shutdown", ChannelThread(c))}
    /\ s_server_unlock_synced_data(ChannelThread(c))
    /\ UNCHANGED <<server, npc, is_shutting_down, listener, acc, schan, sconn, rel,
                   incoming_calls, conn_shutdown_calls, srv_counts, registration,
                   server_uaf, socket_reads>>

\* Variant: was_present is not tested, so that for an absent entry the
\* callback is read through the element the lookup left unset.
TellsUserOfShutdown_Unchecked(was_present, conn) ==
    IF was_present THEN conn.on_shutdown ELSE TRUE

\* Lines 543-550: whether the connection's on_shutdown is called.
TellsUserOfShutdown(was_present, conn) == was_present /\ conn.on_shutdown

\* Lines 543-550: tell the user, if the entry was there.
ShutdownNotify(c) ==
    /\ shut[c].pc = "notify"
    /\ conn_shutdown_calls' =
           IF TellsUserOfShutdown(shut[c].was_present, sconn[c])
           THEN [conn_shutdown_calls EXCEPT ![c] = @ + 1]
           ELSE conn_shutdown_calls
    /\ shut' = [shut EXCEPT ![c].pc = "done"]
    /\ UNCHANGED <<server, npc, lock_owner, is_shutting_down,
                   channel_to_connection_map, listener, acc, schan, sconn, rel,
                   incoming_calls, srv_counts, registration, server_uaf, accesses, socket_reads>>

\* aws_http_server_release, line 664: called on a server that exists.
ReleaseLock(r) ==
    /\ server.state = "live"
    /\ rel[r].pc = "idle"
    /\ s_server_lock_synced_data(ReleaseThread(r))
    /\ rel' = [rel EXCEPT ![r].pc = "critical"]
    /\ UNCHANGED <<server, npc, is_shutting_down, channel_to_connection_map,
                   listener, acc, shut, schan, sconn, incoming_calls,
                   conn_shutdown_calls, srv_counts, registration, server_uaf, accesses, socket_reads>>

\* Lines 665-669: what the call finds in is_shutting_down.
AlreadyShuttingDown(flag) == flag

\* Variant: the walk over the map empties it.
MapAfterBroadcast_Cleared(map) == {}

\* Lines 672-677: the walk over the map reads its keys and changes nothing.
MapAfterBroadcast(map) == map

\* Variant: the channels are left as they are.
BroadcastShutdown_None(map, chans) == chans

\* Lines 672-677: request shutdown of every channel in the map.
BroadcastShutdown(map, chans) ==
    [c \in Channels |->
        IF c \in map
        THEN aws_channel_shutdown(chans[c], AWS_ERROR_HTTP_CONNECTION_CLOSED)
        ELSE chans[c]]

\* Lines 665-686: the critical section, the unlock, and the early return of
\* a call that found the server shutting down.  On a server that was freed
\* while the call held the lock, the flag it reads is whatever the freed
\* memory holds.
ReleaseCritical(r) ==
    /\ rel[r].pc = "critical"
    /\ accesses' = accesses \cup
           {SharedAccess("aws_http_server_release", ReleaseThread(r))}
    /\ IF server.state = "freed"
       THEN /\ server_uaf' = TRUE
            /\ lock_owner' = NoOwner
            /\ \E already \in BOOLEAN :
                  /\ rel' = [rel EXCEPT ![r].pc = IF already THEN "done" ELSE "after"]
                  /\ srv_counts' = IF already THEN srv_counts
                                   ELSE [srv_counts EXCEPT !.transitions = @ + 1,
                                                           !.broadcasts = @ + 1]
            /\ UNCHANGED <<is_shutting_down, schan, channel_to_connection_map>>
       ELSE LET already == AlreadyShuttingDown(is_shutting_down) IN
            /\ s_server_unlock_synced_data(ReleaseThread(r))
            /\ rel' = [rel EXCEPT ![r].pc = IF already THEN "done" ELSE "after"]
            /\ is_shutting_down' = TRUE
            /\ schan' = IF already THEN schan
                        ELSE BroadcastShutdown(channel_to_connection_map, schan)
            /\ channel_to_connection_map' =
                   IF already THEN channel_to_connection_map
                   ELSE MapAfterBroadcast(channel_to_connection_map)
            /\ srv_counts' =
                   IF already THEN srv_counts
                   ELSE [srv_counts EXCEPT
                            !.transitions = @ + (IF is_shutting_down THEN 0 ELSE 1),
                            !.broadcasts = @ + 1,
                            !.broadcast_shutdowns =
                                @ + Cardinality(channel_to_connection_map)]
            /\ UNCHANGED server_uaf
    /\ UNCHANGED <<server, npc, listener, acc, shut,
                   sconn, incoming_calls, conn_shutdown_calls, registration,
                   socket_reads>>

\* Lines 688-701: ask the listener to stop and destroy itself.
ReleaseAfter(r) ==
    /\ rel[r].pc = "after"
    /\ rel' = [rel EXCEPT ![r].pc = "done"]
    /\ listener' = IF listener = "listening" THEN "destroy_requested" ELSE listener
    /\ srv_counts' = [srv_counts EXCEPT !.listener_destroys = @ + 1]
    /\ server_uaf' = (server_uaf \/ server.state = "freed")
    /\ UNCHANGED <<server, npc, lock_owner, is_shutting_down,
                   channel_to_connection_map, acc, shut, schan, sconn,
                   incoming_calls, conn_shutdown_calls, registration, accesses, socket_reads>>

\* s_http_server_clean_up, lines 511-514: whether the user is told.
TellsUserOfDestroy(srv) == srv.on_destroy_complete

\* s_server_bootstrap_on_server_listener_destroy: the listener reports that
\* it has destroyed itself, which it does once its destruction was requested
\* and every channel it accepted is through its callbacks;
\* s_http_server_clean_up then runs.
ListenerDestroyed ==
    /\ listener = "destroy_requested"
    /\ \A c \in Channels :
          /\ acc[c].pc \in {"idle", "returned"}
          /\ schan[c].exists => shut[c].pc = "done"
    /\ listener' = "destroyed"
    /\ srv_counts' = [srv_counts EXCEPT
           !.destroy_complete = @ + (IF TellsUserOfDestroy(server) THEN 1 ELSE 0),
           !.clean_ups = @ + 1]
    /\ channel_to_connection_map' = {}
    /\ accesses' = accesses \cup {SharedAccess("s_http_server_clean_up", ListenerThread)}
    /\ server' = [server EXCEPT !.state = "freed"]
    /\ UNCHANGED <<npc, lock_owner, is_shutting_down, acc, shut, schan, sconn, rel,
                   incoming_calls, conn_shutdown_calls, registration, server_uaf,
                   socket_reads>>

\* Someone else asks for the shutdown of an accepted channel: another
\* handler of the channel, or the user closing the connection.
ServerTransportShutdown(c) ==
    /\ schan[c].exists
    /\ schan[c].shutdown = NoValue
    /\ schan' = [schan EXCEPT ![c] = aws_channel_shutdown(@, AWS_IO_SOCKET_CLOSED)]
    /\ UNCHANGED <<server, npc, lock_owner, is_shutting_down,
                   channel_to_connection_map, listener, acc, shut, sconn, rel,
                   incoming_calls, conn_shutdown_calls, srv_counts, registration, server_uaf, accesses, socket_reads>>

ServerNext ==
    \/ ServerNewBegin /\ UNCHANGED ServerRest
    \/ ServerNewListener /\ UNCHANGED ServerRest
    \/ ServerNewFinish /\ UNCHANGED ServerRest
    \/ \E c \in Channels : AcceptBegin(c) /\ UNCHANGED ServerRest
    \/ \E c \in Channels : AcceptLock(c) /\ UNCHANGED ServerRest
    \/ \E c \in Channels : AcceptCritical(c) /\ UNCHANGED ServerRest
    \/ \E c \in Channels : AcceptNotify(c) /\ UNCHANGED ServerRest
    \/ \E c \in Channels : AcceptError(c) /\ UNCHANGED ServerRest
    \/ \E c \in Channels : ShutdownLock(c) /\ UNCHANGED ServerRest
    \/ \E c \in Channels : ShutdownCritical(c) /\ UNCHANGED ServerRest
    \/ \E c \in Channels : ShutdownNotify(c) /\ UNCHANGED ServerRest
    \/ \E r \in Releasers : ReleaseLock(r) /\ UNCHANGED ServerRest
    \/ \E r \in Releasers : ReleaseCritical(r) /\ UNCHANGED ServerRest
    \/ \E r \in Releasers : ReleaseAfter(r) /\ UNCHANGED ServerRest
    \/ ListenerDestroyed /\ UNCHANGED ServerRest
    \/ \E c \in Channels : ServerTransportShutdown(c) /\ UNCHANGED ServerRest

(***************************************************************************)
(* Reference counting: aws_http_connection_acquire and                     *)
(* aws_http_connection_release called from several threads on one          *)
(* connection.  A release is cut between its atomic decrement and the      *)
(* branch on the value the decrement returned.                             *)
(***************************************************************************)
NoRefFrame == [pc |-> "idle", prev_refcount |-> 0]

\* A connection as its creator receives it: one reference, owned by the
\* creating thread, and one hold on the channel.
RefInit ==
    /\ refcount = 1
    /\ ref_channel = [NoChannel EXCEPT !.exists = TRUE, !.holds = 1]
    /\ held = [t \in RefThreads |-> IF t = 1 THEN 1 ELSE 0]
    /\ ref_frame = [t \in RefThreads |-> NoRefFrame]
    /\ acquires = 0
    /\ final_releases = <<>>
    /\ ref_destroys = <<>>

\* aws_http_connection_acquire, by a thread that owns a reference; the new
\* reference is kept or handed to another thread.
RefAcquire(t, u) ==
    /\ held[t] >= 1
    /\ acquires < MaxAcquires
    /\ refcount' = refcount + 1
    /\ held' = [held EXCEPT ![u] = @ + 1]
    /\ acquires' = acquires + 1
    /\ UNCHANGED <<ref_channel, ref_frame, final_releases, ref_destroys>>

\* Line 362: aws_atomic_fetch_sub returns the count it replaced.
RefFetchSub(t) ==
    /\ ref_frame[t].pc = "idle"
    /\ held[t] >= 1
    /\ ref_frame' = [ref_frame EXCEPT ![t] = [pc |-> "fetched", prev_refcount |-> refcount]]
    /\ refcount' = refcount - 1
    /\ held' = [held EXCEPT ![t] = @ - 1]
    /\ UNCHANGED <<ref_channel, acquires, final_releases, ref_destroys>>

\* Variant: the value is taken for the count after the decrement.
IsFinalRelease_NewCount(prev_refcount) == prev_refcount - 1 = 1

\* Line 363: the release that replaced a count of 1 is the final one.
IsFinalRelease(prev_refcount) == prev_refcount = 1

\* Variant: the hold is given up before the shutdown is requested.
FinalReleaseFirstCall_ReleaseHold(ch) == aws_channel_release_hold(ch)

\* Lines 369-370: the first call of the final release.
FinalReleaseFirstCall(ch) == aws_channel_shutdown(ch, AWS_ERROR_SUCCESS)

\* Lines 372-373: the second call of the final release.
FinalReleaseSecondCall(ch) == aws_channel_release_hold(ch)

\* Lines 363-370 and 374-381: the final release asks the channel to shut
\* down; any other release only logs and returns.
RefBranch(t) ==
    /\ ref_frame[t].pc = "fetched"
    /\ IF IsFinalRelease(ref_frame[t].prev_refcount)
       THEN /\ ref_channel' = FinalReleaseFirstCall(ref_channel)
            /\ ref_frame' = [ref_frame EXCEPT ![t].pc = "shutdown_requested"]
       ELSE /\ ref_frame' = [ref_frame EXCEPT ![t] = NoRefFrame]
            /\ UNCHANGED ref_channel
    /\ UNCHANGED <<refcount, held, acquires, final_releases, ref_destroys>>

\* Lines 372-373: the final release gives up the connection's hold on the
\* channel and returns.
RefReleaseHold(t) ==
    /\ ref_frame[t].pc = "shutdown_requested"
    /\ ref_channel' = FinalReleaseSecondCall(ref_channel)
    /\ final_releases' = Append(final_releases,
           [thread |-> t, prev_refcount |-> ref_frame[t].prev_refcount,
            refcount |-> refcount])
    /\ ref_frame' = [ref_frame EXCEPT ![t] = NoRefFrame]
    /\ UNCHANGED <<refcount, held, acquires, ref_destroys>>

\* Someone else asks for the channel's shutdown: another handler, or the
\* peer closing the socket.
RefTransportShutdown ==
    /\ ref_channel.shutdown = NoValue
    /\ ref_destroys = <<>>
    /\ ref_channel' = aws_channel_shutdown(ref_channel, AWS_IO_SOCKET_CLOSED)
    /\ UNCHANGED <<refcount, held, ref_frame, acquires, final_releases, ref_destroys>>

\* Line 372: once nothing holds the channel it destroys its slots and
\* handlers, and with them the connection.
RefChannelDestroy ==
    /\ ref_channel.holds <= 0
    /\ ref_destroys = <<>>
    /\ ref_destroys' = Append(ref_destroys,
           [refcount |-> refcount, shutdown |-> ref_channel.shutdown])
    /\ UNCHANGED <<refcount, ref_channel, held, ref_frame, acquires, final_releases>>

RefNext ==
    \/ \E t, u \in RefThreads : RefAcquire(t, u) /\ UNCHANGED RefRest
    \/ \E t \in RefThreads : RefFetchSub(t) /\ UNCHANGED RefRest
    \/ \E t \in RefThreads : RefBranch(t) /\ UNCHANGED RefRest
    \/ \E t \in RefThreads : RefReleaseHold(t) /\ UNCHANGED RefRest
    \/ RefTransportShutdown /\ UNCHANGED RefRest
    \/ RefChannelDestroy /\ UNCHANGED RefRest

(***************************************************************************)
(* Stream ids: aws_http_connection_get_next_stream_id.  A uint32_t is kept *)
(* as its two 16-bit halves <<high, low>>, so that its arithmetic wraps at  *)
(* 2^32 as the C arithmetic does.                                          *)
(***************************************************************************)
HalfWord == 2^16

U32Zero == <<0, 0>>

\* The uint32_t of a number below 2^31.
U32FromNat(n) == <<n \div HalfWord, n % HalfWord>>

\* The number of a uint32_t below 2^31.
U32ToNat(a) == a[1] * HalfWord + a[2]

\* a + k in uint32_t arithmetic, for a small k.
U32Add(a, k) ==
    LET low == a[2] + k
        high == a[1] + (low \div HalfWord)
    IN <<high % HalfWord, low % HalfWord>>

\* a > b
U32Gt(a, b) == a[1] > b[1] \/ (a[1] = b[1] /\ a[2] > b[2])

\* a >> 1
U32ShiftRight1(a) ==
    <<a[1] \div 2, (a[2] \div 2) + (a[1] % 2) * (HalfWord \div 2)>>

UINT32_MAX == <<HalfWord - 1, HalfWord - 1>>

\* Line 1037.
MAX_STREAM_ID == U32ShiftRight1(UINT32_MAX)

\* Variant: the largest 31-bit id counts as exhausted too.
StreamIdsExhausted_AtMax(next_id) == ~U32Gt(MAX_STREAM_ID, next_id)

\* Line 1043: next_id > MAX_STREAM_ID
StreamIdsExhausted(next_id) == U32Gt(next_id, MAX_STREAM_ID)

\* Variant: the counter advances by one.
NextStreamIdAdvanced_ByOne(id) == U32Add(id, 1)

\* Line 1049: connection->next_stream_id += 2
NextStreamIdAdvanced(id) == U32Add(id, 2)

\* Variant: the counter advances on the exhausted branch as well.
ExhaustedStreamId_Advanced(id) == U32Add(id, 2)

\* Lines 1043-1048: the exhausted branch leaves connection->next_stream_id
\* as it found it.
ExhaustedStreamId(id) == id

\* aws_http_connection_get_next_stream_id: the value returned, the error
\* raised and the counter it leaves.
aws_http_connection_get_next_stream_id(id) ==
    IF StreamIdsExhausted(id)
    THEN [next_id |-> U32Zero, raised |-> AWS_ERROR_HTTP_STREAM_IDS_EXHAUSTED,
          next_stream_id |-> ExhaustedStreamId(id)]
    ELSE [next_id |-> id, raised |-> NoValue,
          next_stream_id |-> NextStreamIdAdvanced(id)]

\* The counter of a connection created with `first` after n calls that each
\* advanced it: first + 2n.
StreamIdAfter(first, n) ==
    U32Add(<<n \div (HalfWord \div 2), (n % (HalfWord \div 2)) * 2>>, first)

\* The ids a client and a server connection start from.
FirstStreamIds == {1, 2}

\* How many ids a 31-bit counter can hand out at most.
StreamIdLimit == 2^30

\* A connection is looked at from its creation, or from a state a run of
\* successful calls has brought it to: one of the first few or one of the
\* last few such states.
StreamInit ==
    /\ stream_first \in FirstStreamIds
    /\ stream_calls \in (0..(StreamWindow - 1))
                            \cup ((StreamIdLimit - StreamWindow)..StreamIdLimit)
    /\ \/ stream_calls = 0
       \/ ~StreamIdsExhausted(StreamIdAfter(stream_first, stream_calls - 1))
    /\ next_stream_id = StreamIdAfter(stream_first, stream_calls)
    /\ stream_returns = <<>>

\* A client connection as created.
StreamFresh ==
    /\ stream_first = 1
    /\ stream_calls = 0
    /\ next_stream_id = U32FromNat(stream_first)
    /\ stream_returns = <<>>

GetNextStreamId ==
    /\ Len(stream_returns) < MaxStreamCalls
    /\ LET r == aws_http_connection_get_next_stream_id(next_stream_id) IN
       /\ next_stream_id' = r.next_stream_id
       /\ stream_calls' = stream_calls + 1
       /\ stream_returns' = Append(stream_returns,
              [call |-> stream_calls + 1, before |-> next_stream_id,
               next_id |-> r.next_id, raised |-> r.raised])
    /\ UNCHANGED stream_first

StreamNext == GetNextStreamId /\ UNCHANGED StreamRest

(***************************************************************************)
(* One call of s_connection_new on its own.                                *)
(***************************************************************************)
NoNewArgs == [called |-> FALSE, is_server |-> FALSE, is_using_tls |-> FALSE]

NewInit ==
    /\ new_args = NoNewArgs
    /\ new_result = ConnNewResult(FALSE, NoValue, NoValue, FALSE, FALSE, FALSE, 0, 0, 0)
    /\ new_calls = <<>>

ConnectionNew ==
    /\ ~new_args.called
    /\ \E is_server, is_using_tls \in BOOLEAN, e \in ConnNewEnv :
          /\ new_args' = [called |-> TRUE, is_server |-> is_server,
                          is_using_tls |-> is_using_tls, e |-> e]
          /\ new_result' = s_connection_new(is_server, is_using_tls, e)
          /\ new_calls' = s_connection_new_calls(is_server, is_using_tls, e)

NewNext == ConnectionNew /\ UNCHANGED NewRest

(***************************************************************************)
(* Calls of the user on a connection: the HTTP/2-only operations and       *)
(* aws_http_connection_configure_server.                                   *)
(***************************************************************************)
\* The HTTP/2-only operations, lines 248-340.
Http2Operations ==
    {"aws_http2_connection_change_settings", "aws_http2_connection_ping",
     "aws_http2_connection_send_goaway", "aws_http2_connection_get_sent_goaway",
     "aws_http2_connection_get_received_goaway",
     "aws_http2_connection_get_local_settings",
     "aws_http2_connection_get_remote_settings"}

\* The vtable entry each of them forwards to.
Http2VtableEntry(op) ==
    CASE op = "aws_http2_connection_change_settings" -> "change_settings"
      [] op = "aws_http2_connection_ping" -> "send_ping"
      [] op = "aws_http2_connection_send_goaway" -> "send_goaway"
      [] op = "aws_http2_connection_get_sent_goaway" -> "get_sent_goaway"
      [] op = "aws_http2_connection_get_received_goaway" -> "get_received_goaway"
      [] op = "aws_http2_connection_get_local_settings" -> "get_local_settings"
      [] op = "aws_http2_connection_get_remote_settings" -> "get_remote_settings"

\* Lines 318-340: the two settings getters return AWS_OP_SUCCESS themselves;
\* the others return what the implementation returns.
Http2ReturnsImplResult(op) ==
    op \notin {"aws_http2_connection_get_local_settings",
               "aws_http2_connection_get_remote_settings"}

OpResults == {"AWS_OP_SUCCESS", "AWS_OP_ERR"}

\* Whatever error the implementation raises when its function fails.
ImplementationError == "raised by the implementation"

\* Variant: the version is not looked at.
s_check_http2_connection_Unchecked(connection) ==
    [result |-> "AWS_OP_SUCCESS", raised |-> NoValue]

\* Lines 236-246.
s_check_http2_connection(connection) ==
    IF connection.http_version = AWS_HTTP_VERSION_2
    THEN [result |-> "AWS_OP_SUCCESS", raised |-> NoValue]
    ELSE [result |-> "AWS_OP_ERR", raised |-> AWS_ERROR_INVALID_STATE]

\* Each of the seven operations: check the version, then forward.
\* impl_result is what the implementation's function returns.
Http2Operation(op, connection, impl_result) ==
    LET check == s_check_http2_connection(connection) IN
    IF check.result # "AWS_OP_SUCCESS"
    THEN [result |-> "AWS_OP_ERR", raised |-> check.raised, vtable |-> NoValue]
    ELSE [result |-> IF Http2ReturnsImplResult(op) THEN impl_result
                     ELSE "AWS_OP_SUCCESS",
          raised |-> IF Http2ReturnsImplResult(op) /\ impl_result = "AWS_OP_ERR"
                     THEN ImplementationError ELSE NoValue,
          vtable |-> Http2VtableEntry(op)]

\* struct aws_http_server_connection_options as the caller may pass it;
\* is_null stands for a NULL options pointer.
ServerConnectionOptions ==
    [is_null : BOOLEAN,
     on_incoming_request : {NoValue, "on_incoming_request_A", "on_incoming_request_B"},
     on_shutdown : {NoValue, "on_shutdown_A", "on_shutdown_B"},
     connection_user_data : {"user_data_A", "user_data_B"}]

\* No options: what a call that is not a configuration carries in the log.
NoServerConnectionOptions ==
    [is_null |-> TRUE, on_incoming_request |-> NoValue, on_shutdown |-> NoValue,
     connection_user_data |-> "user_data_A"]

\* Variant: a connection that already has a handler is configured again.
AlreadyConfigured_Unchecked(connection) == FALSE

\* Line 1023: connection->server_data->on_incoming_request
AlreadyConfigured(connection) == connection.on_incoming_request # NoValue

\* aws_http_connection_configure_server, lines 1007-1034.
aws_http_connection_configure_server(connection, options) ==
    IF options.is_null \/ options.on_incoming_request = NoValue
    THEN [result |-> "AWS_OP_ERR", raised |-> AWS_ERROR_INVALID_ARGUMENT,
          connection |-> connection]
    ELSE IF ~connection.server_data
    THEN [result |-> "AWS_OP_ERR", raised |-> AWS_ERROR_INVALID_STATE,
          connection |-> connection]
    ELSE IF AlreadyConfigured(connection)
    THEN [result |-> "AWS_OP_ERR", raised |-> AWS_ERROR_INVALID_STATE,
          connection |-> connection]
    ELSE [result |-> "AWS_OP_SUCCESS", raised |-> NoValue,
          connection |-> [connection EXCEPT
              !.user_data = options.connection_user_data,
              !.on_incoming_request = options.on_incoming_request,
              !.on_shutdown = options.on_shutdown]]

\* A connection as s_connection_new returns it: of either version, with
\* server_data or client_data, and no callbacks yet.
ApiConnections ==
    [http_version : {AWS_HTTP_VERSION_1_1, AWS_HTTP_VERSION_2},
     server_data : BOOLEAN,
     on_incoming_request : {NoValue}, on_shutdown : {NoValue},
     user_data : {NoValue}]

ApiInit ==
    /\ api_conn \in ApiConnections
    /\ api_log = <<>>
    /\ api_impl = <<>>

\* An HTTP/1.1 server connection as created.
ApiFresh ==
    /\ api_conn = [http_version |-> AWS_HTTP_VERSION_1_1, server_data |-> TRUE,
                   on_incoming_request |-> NoValue, on_shutdown |-> NoValue,
                   user_data |-> NoValue]
    /\ api_log = <<>>
    /\ api_impl = <<>>

Http2Call ==
    /\ Len(api_log) < MaxApiCalls
    /\ \E op \in Http2Operations, impl_result \in OpResults :
          LET r == Http2Operation(op, api_conn, impl_result) IN
          \* the implementation's answer only matters where it is returned
          /\ (r.vtable = NoValue \/ ~Http2ReturnsImplResult(op)) =>
                 impl_result = "AWS_OP_SUCCESS"
          /\ api_impl' = IF r.vtable # NoValue THEN Append(api_impl, r.vtable)
                         ELSE api_impl
          /\ api_log' = Append(api_log,
                 [op |-> op, before |-> api_conn, after |-> api_conn,
                  impl_before |-> api_impl, impl_after |-> api_impl',
                  options |-> NoServerConnectionOptions,
                  result |-> r.result, raised |-> r.raised])
    /\ UNCHANGED api_conn

ConfigureServer ==
    /\ Len(api_log) < MaxApiCalls
    /\ \E options \in ServerConnectionOptions :
          LET r == aws_http_connection_configure_server(api_conn, options) IN
          /\ api_conn' = r.connection
          /\ api_log' = Append(api_log,
                 [op |-> "aws_http_connection_configure_server",
                  before |-> api_conn, after |-> r.connection,
                  impl_before |-> api_impl, impl_after |-> api_impl,
                  options |-> options, result |-> r.result, raised |-> r.raised])
    /\ UNCHANGED api_impl

ApiNext ==
    \/ Http2Call /\ UNCHANGED ApiRest
    \/ ConfigureServer /\ UNCHANGED ApiRest

(***************************************************************************)
(* The stream pipeline of an HTTP/1.1 client connection.  Streams are      *)
(* submitted from any thread into new_client_stream_list under the lock;   *)
(* outgoing_stream_task, on the event-loop thread, moves them to           *)
(* stream_list and sends them one at a time; a stream leaves stream_list   *)
(* when both its outgoing and its incoming message are done.               *)
(***************************************************************************)
NoStream == 0

NoH1Stream == [submitted |-> FALSE, is_outgoing_message_done |-> FALSE,
               is_incoming_message_done |-> FALSE]

PipelineInit ==
    /\ stream_list = <<>>
    /\ outgoing_stream = NoStream
    /\ new_client_stream_list = <<>>
    /\ is_outgoing_stream_task_active = FALSE
    /\ outgoing_stream_task = FALSE
    /\ h1_streams = [x \in StreamNames |-> NoH1Stream]
    /\ outgoing_visits = <<>>
    /\ completed = <<>>

\* The list without one stream.
ListWithout(list, x) == SelectSeq(list, LAMBDA y : y # x)

\* Variant: the engine takes up the stream it was given last.
NextOutgoingStream_Newest(list, streams) ==
    LET waiting == SelectSeq(list, LAMBDA y : ~streams[y].is_outgoing_message_done)
    IN IF waiting = <<>> THEN NoStream ELSE waiting[Len(waiting)]

\* The next entry of stream_list, in sequence order, whose outgoing message
\* is still to be written.
NextOutgoingStream(list, streams) ==
    LET waiting == SelectSeq(list, LAMBDA y : ~streams[y].is_outgoing_message_done)
    IN IF waiting = <<>> THEN NoStream ELSE Head(waiting)

\* A stream is accepted for sending: it is queued under the lock, and the
\* task is scheduled unless it is active already.  Streams are named in the
\* order they are submitted.
SubmitStream ==
    \E x \in StreamNames :
        /\ ~h1_streams[x].submitted
        /\ \A y \in StreamNames : y < x => h1_streams[y].submitted
        /\ h1_streams' = [h1_streams EXCEPT ![x].submitted = TRUE]
        /\ new_client_stream_list' = Append(new_client_stream_list, x)
        /\ is_outgoing_stream_task_active' = TRUE
        /\ outgoing_stream_task' = (outgoing_stream_task \/ ~is_outgoing_stream_task_active)
        /\ UNCHANGED <<stream_list, outgoing_stream, outgoing_visits, completed>>

\* One run of outgoing_stream_task.  The stream being sent either has more
\* to write, and the task runs again, or is done; with no stream in hand
\* the task takes in the new streams and moves on to the next one, going
\* inactive when there is none.
OutgoingStreamTask ==
    /\ outgoing_stream_task
    /\ \E finished \in BOOLEAN :
          LET current == outgoing_stream
              in_progress == current # NoStream /\ ~finished
              done_streams ==
                  IF current # NoStream /\ finished
                  THEN [h1_streams EXCEPT ![current].is_outgoing_message_done = TRUE]
                  ELSE h1_streams
              stream_complete ==
                  /\ current # NoStream /\ finished
                  /\ h1_streams[current].is_incoming_message_done
              list1 == IF stream_complete THEN ListWithout(stream_list, current)
                       ELSE stream_list
              list2 == list1 \o new_client_stream_list
              next == NextOutgoingStream(list2, done_streams)
          IN
          IF in_progress
          THEN UNCHANGED <<stream_list, outgoing_stream, new_client_stream_list,
                           is_outgoing_stream_task_active, outgoing_stream_task,
                           h1_streams, outgoing_visits, completed>>
          ELSE /\ h1_streams' = done_streams
               /\ completed' = IF stream_complete THEN Append(completed, current)
                               ELSE completed
               /\ stream_list' = list2
               /\ new_client_stream_list' = <<>>
               /\ outgoing_stream' = next
               /\ outgoing_visits' = IF next # NoStream THEN Append(outgoing_visits, next)
                                     ELSE outgoing_visits
               /\ is_outgoing_stream_task_active' = (next # NoStream)
               /\ outgoing_stream_task' = (next # NoStream)

\* The incoming message of the stream being decoded, the first of
\* stream_list still waiting for one, completes; the stream leaves the list
\* if its outgoing message is done as well.
IncomingMessageDone ==
    LET waiting == SelectSeq(stream_list,
                             LAMBDA y : ~h1_streams[y].is_incoming_message_done)
    IN
    /\ waiting # <<>>
    /\ LET incoming_stream == Head(waiting)
           stream_complete == h1_streams[incoming_stream].is_outgoing_message_done
       IN
       /\ h1_streams' = [h1_streams EXCEPT ![incoming_stream].is_incoming_message_done = TRUE]
       /\ stream_list' = IF stream_complete THEN ListWithout(stream_list, incoming_stream)
                         ELSE stream_list
       /\ completed' = IF stream_complete THEN Append(completed, incoming_stream)
                       ELSE completed
    /\ UNCHANGED <<outgoing_stream, new_client_stream_list,
                   is_outgoing_stream_task_active, outgoing_stream_task,
                   outgoing_visits>>

PipelineNext ==
    \/ SubmitStream /\ UNCHANGED PipelineRest
    \/ OutgoingStreamTask /\ UNCHANGED PipelineRest
    \/ IncomingMessageDone /\ UNCHANGED PipelineRest

(***************************************************************************)
(* Window updates of an HTTP/1.1 connection.  A call made off the          *)
(* event-loop thread adds its increment to synced_data.window_update_size  *)
(* under the lock and schedules window_update_task if the size was zero;   *)
(* the task takes the accumulated size under the lock and applies it.      *)
(***************************************************************************)
NoWindowFrame == [pc |-> "idle", increment |-> 0, should_schedule |-> FALSE]

WindowInit ==
    /\ window_update_size = 0
    /\ window_update_task = 0
    /\ win = [t \in WindowCallers |-> NoWindowFrame]
    /\ window_applied = <<>>

\* Variant: every call schedules the task.
WindowShouldSchedule_Always(size) == TRUE

\* "If non-zero, then window_update_task is scheduled": a call schedules the
\* task only when nothing was pending.
WindowShouldSchedule(size) == size = 0

\* update_window on the event-loop thread: the increment is applied at once.
UpdateWindowOnThread ==
    /\ Len(window_applied) < MaxWindowCallers + 1
    /\ \E increment \in 1..MaxIncrement :
          window_applied' = Append(window_applied,
                                   [size |-> increment, by |-> "update_window"])
    /\ UNCHANGED <<window_update_size, window_update_task, win>>

\* update_window off the event-loop thread, the critical section.
UpdateWindowAccumulate(t) ==
    /\ win[t].pc = "idle"
    /\ \E increment \in 1..MaxIncrement :
          /\ win' = [win EXCEPT ![t] =
                 [pc |-> "schedule", increment |-> increment,
                  should_schedule |-> WindowShouldSchedule(window_update_size)]]
          /\ window_update_size' = window_update_size + increment
    /\ UNCHANGED <<window_update_task, window_applied>>

\* update_window off the event-loop thread, after the unlock.
UpdateWindowSchedule(t) ==
    /\ win[t].pc = "schedule"
    /\ win' = [win EXCEPT ![t].pc = "done"]
    /\ window_update_task' = window_update_task + (IF win[t].should_schedule THEN 1 ELSE 0)
    /\ UNCHANGED <<window_update_size, window_applied>>

\* window_update_task on the event-loop thread.
WindowUpdateTask ==
    /\ window_update_task > 0
    /\ window_update_task' = window_update_task - 1
    /\ window_applied' = Append(window_applied,
                                [size |-> window_update_size, by |-> "window_update_task"])
    /\ window_update_size' = 0
    /\ UNCHANGED win

WindowNext ==
    \/ UpdateWindowOnThread /\ UNCHANGED WindowRest
    \/ \E t \in WindowCallers : UpdateWindowAccumulate(t) /\ UNCHANGED WindowRest
    \/ \E t \in WindowCallers : UpdateWindowSchedule(t) /\ UNCHANGED WindowRest
    \/ WindowUpdateTask /\ UNCHANGED WindowRest

Init == ClientInit /\ ServerInit /\ RefInit /\ StreamFresh /\ NewInit /\ ApiFresh
        /\ PipelineInit /\ WindowInit

\* The same, with the stream-id counter anywhere a run may start from.
InitStream == ClientInit /\ ServerInit /\ RefInit /\ StreamInit /\ NewInit /\ ApiFresh
              /\ PipelineInit /\ WindowInit

\* The same, with the connection the user calls of any version and role.
InitApi == ClientInit /\ ServerInit /\ RefInit /\ StreamFresh /\ NewInit /\ ApiInit
           /\ PipelineInit /\ WindowInit

SpecClient == Init /\ [][ClientNext]_vars

SpecServer == Init /\ [][ServerNext]_vars

SpecRef == Init /\ [][RefNext]_vars

SpecStream == InitStream /\ [][StreamNext]_vars

SpecNew == Init /\ [][NewNext]_vars

SpecApi == InitApi /\ [][ApiNext]_vars

SpecPipeline == Init /\ [][PipelineNext]_vars

SpecWindow == Init /\ [][WindowNext]_vars

(***************************************************************************)
(* Properties of the client connect bootstrap.                             *)
(***************************************************************************)
Initiated == connect_result = "AWS_OP_SUCCESS"

SetupReportedSuccess ==
    \E i \in 1..Len(setup_calls) : setup_calls[i].error_code = AWS_ERROR_SUCCESS

SetupReportedFailure ==
    \E i \in 1..Len(setup_calls) : setup_calls[i].error_code # AWS_ERROR_SUCCESS

\* C1: an initiated connect attempt invokes on_setup exactly once over its
\* whole life: never twice, and once by the time the attempt has ended.  On
\* transport failure and on success the call is made by the setup callback;
\* on a construction failure the setup callback makes no call and the
\* channel-shutdown callback makes the one call.
C1_SetupExactlyOnce ==
    Initiated =>
        /\ Len(setup_calls) <= 1
        /\ (cpc = "done" => Len(setup_calls) = 1)
        /\ (setup_outcome \in {"transport_failure", "success"} =>
                Len(setup_calls) = 1 /\ setup_calls[1].from = "setup")
        /\ (setup_outcome = "construction_failure" /\ cpc = "channel_up" =>
                Len(setup_calls) = 0)
        /\ (setup_outcome = "construction_failure" /\ cpc = "done" =>
                setup_calls[1].from = "shutdown")

\* C1 witness: a construction failure whose on_setup came from the
\* channel-shutdown callback.
C1_Witness ==
    /\ Initiated
    /\ cpc = "done"
    /\ setup_outcome = "construction_failure"
    /\ Len(setup_calls) = 1
    /\ setup_calls[1].from = "shutdown"

\* C2 (as stated): once the attempt has ended, on_shutdown has fired if and
\* only if on_setup fired with success.
C2_ShutdownIffSetupSucceeded_Original ==
    (Initiated /\ cpc = "done") =>
        (Len(shutdown_calls) >= 1 <=> SetupReportedSuccess)

\* C2 (amended): on_shutdown fires at most once, only after on_setup
\* reported success and only from the channel-shutdown callback; it never
\* fires when on_setup reported a failure; and when the attempt has ended
\* it has fired if and only if on_setup reported success and an
\* on_shutdown callback was supplied.
C2_ShutdownIffSetupSucceededAndSupplied ==
    Initiated =>
        /\ Len(shutdown_calls) <= 1
        /\ (Len(shutdown_calls) = 1 => SetupReportedSuccess /\ cpc = "done")
        /\ (SetupReportedFailure => Len(shutdown_calls) = 0)
        /\ (cpc = "done" =>
                (Len(shutdown_calls) = 1 <=>
                    SetupReportedSuccess /\ http_bootstrap.on_shutdown))

\* C2 witness: a successful setup followed by the on_shutdown call.
C2_Witness ==
    /\ Initiated
    /\ cpc = "done"
    /\ SetupReportedSuccess
    /\ Len(shutdown_calls) = 1

\* C3: every on_setup call that reports a failed setup carries no
\* connection and a non-zero error code (and a successful one carries a
\* connection); a shutdown reason of 0 reaching the shutdown callback before
\* on_setup fired is reported as AWS_ERROR_UNKNOWN.
C3_FailedSetupHasNonZeroError ==
    \A i \in 1..Len(setup_calls) :
        /\ (setup_calls[i].connection <=> setup_calls[i].error_code = AWS_ERROR_SUCCESS)
        /\ (setup_calls[i].from = "shutdown" =>
                /\ ~setup_calls[i].connection
                /\ setup_calls[i].error_code # AWS_ERROR_SUCCESS
                /\ (cchannel.shutdown = AWS_ERROR_SUCCESS =>
                        setup_calls[i].error_code = AWS_ERROR_UNKNOWN))

\* C3 witness: the channel shut down with reason 0 before on_setup fired.
C3_Witness ==
    /\ cpc = "done"
    /\ cchannel.shutdown = AWS_ERROR_SUCCESS
    /\ Len(setup_calls) = 1
    /\ setup_calls[1].from = "shutdown"
    /\ setup_calls[1].error_code = AWS_ERROR_UNKNOWN

(***************************************************************************)
(* Properties of the server.                                               *)
(***************************************************************************)
ReleasesDone == Cardinality({r \in Releasers : rel[r].pc = "done"})

\* The accept of channel c got as far as the registration step and found
\* the server not shutting down and the insertion succeeding.
Registered(c) ==
    /\ registration[c].reached
    /\ ~registration[c].shutting_down
    /\ registration[c].put_ok

\* The shutdown notification of channel c has removed whatever entry it had.
Removed(c) == shut[c].pc \in {"notify", "done"}

\* Every release call that was started has returned.
ReleasesQuiet == \A r \in Releasers : rel[r].pc \in {"idle", "done"}

\* C4: however many times aws_http_server_release is called on a live
\* server, the Running->ShuttingDown transition, the shutdown broadcast and
\* the listener-destroy request happen exactly once each, every later call
\* is a no-op, and a server that supplied on_destroy_complete has it invoked
\* exactly once.
C4_ReleaseOnce ==
    /\ srv_counts.transitions <= 1
    /\ srv_counts.broadcasts <= 1
    /\ srv_counts.listener_destroys <= 1
    /\ srv_counts.destroy_complete <= 1
    /\ ~server_uaf
    /\ (ReleasesDone >= 1 =>
            /\ srv_counts.transitions = 1
            /\ srv_counts.broadcasts = 1)
    /\ (ReleasesDone >= 1 /\ ReleasesQuiet => srv_counts.listener_destroys = 1)
    /\ (server.state = "freed" /\ server.on_destroy_complete =>
            srv_counts.destroy_complete = 1)

\* C4, the calls that do not overlap the teardown: as long as no release
\* call has run on the freed server, the counts are as C4 states them, and
\* on_destroy_complete is invoked once if supplied and never otherwise.
C4_ReleaseOnceWhileLive ==
    ~server_uaf =>
        /\ srv_counts.transitions <= 1
        /\ srv_counts.broadcasts <= 1
        /\ srv_counts.listener_destroys <= 1
        /\ (srv_counts.transitions = 1 <=> is_shutting_down)
        /\ (ReleasesDone >= 1 =>
                /\ srv_counts.transitions = 1
                /\ srv_counts.broadcasts = 1)
        /\ (ReleasesDone >= 1 /\ ReleasesQuiet => srv_counts.listener_destroys = 1)
        /\ srv_counts.destroy_complete =
               (IF server.state = "freed" /\ server.on_destroy_complete THEN 1 ELSE 0)

\* C4, two calls that returned before the teardown: one broadcast that
\* reached a channel, one listener-destroy request, one on_destroy_complete.
C4_TwoReleasesWhileLive ==
    /\ ~server_uaf
    /\ ReleasesDone >= 2
    /\ srv_counts.broadcasts = 1
    /\ srv_counts.broadcast_shutdowns >= 1
    /\ srv_counts.listener_destroys = 1
    /\ server.state = "freed"
    /\ srv_counts.destroy_complete = 1

\* C4 witness: a second call that took the lock on the live server, was
\* overtaken by the listener's destroy callback and went on to repeat the
\* broadcast and the listener-destroy request on the freed server.
C4_ReleaseOnFreedServer ==
    /\ server_uaf
    /\ server.on_destroy_complete
    /\ ReleasesDone >= 2
    /\ srv_counts.broadcasts = 2
    /\ srv_counts.listener_destroys = 2

\* C5: a channel whose registration step found the server shutting down is
\* never in the map; its accept reports CONNECTION_CLOSED with no
\* connection, asks the channel to shut down and releases the connection.
C5_RefusedWhenShuttingDown ==
    \A c \in Channels :
        (registration[c].reached /\ registration[c].shutting_down) =>
            /\ c \notin channel_to_connection_map
            /\ acc[c].pc \in {"error", "returned"}
            /\ (acc[c].pc = "error" =>
                    /\ acc[c].error_code = AWS_ERROR_HTTP_CONNECTION_CLOSED
                    /\ ~acc[c].user_cb_invoked)
            /\ (acc[c].pc = "returned" =>
                    /\ incoming_calls[c] =
                           <<[connection |-> FALSE,
                              error_code |-> AWS_ERROR_HTTP_CONNECTION_CLOSED]>>
                    /\ schan[c].shutdown # NoValue
                    /\ sconn[c].refcount = 0
                    /\ schan[c].holds = 0)

\* C5 witness: an accept that lost the race with aws_http_server_release.
C5_Witness ==
    \E c \in Channels :
        /\ registration[c].reached
        /\ registration[c].shutting_down
        /\ acc[c].pc = "returned"
        /\ Len(incoming_calls[c]) = 1

\* C6: the map holds a channel exactly when its accept registered it and
\* its shutdown notification has not yet removed it.
C6_MapHoldsRegisteredChannels ==
    \A c \in Channels :
        /\ c \in channel_to_connection_map <=> (Registered(c) /\ ~Removed(c))
        /\ c \in channel_to_connection_map => sconn[c].state = "live"

\* C6 witness: a channel that was registered and has since been removed.
C6_Witness ==
    \E c \in Channels :
        /\ Registered(c)
        /\ Removed(c)
        /\ shut[c].was_present
        /\ c \notin channel_to_connection_map

\* C7: each accept notification invokes on_incoming_connection exactly
\* once, with a connection and success or with no connection and a non-zero
\* error; whenever the accept fails, a channel that exists is asked to shut
\* down.
C7_IncomingConnectionOnce ==
    \A c \in Channels :
        /\ Len(incoming_calls[c]) <= 1
        /\ (acc[c].pc = "returned" => Len(incoming_calls[c]) = 1)
        /\ (acc[c].pc \in {"idle", "lock", "critical", "notify"} =>
                Len(incoming_calls[c]) = 0)
        /\ \A i \in 1..Len(incoming_calls[c]) :
               /\ incoming_calls[c][i].error_code # NoValue
               /\ (incoming_calls[c][i].connection <=>
                       incoming_calls[c][i].error_code = AWS_ERROR_SUCCESS)
               /\ (incoming_calls[c][i].connection <=> Registered(c))
        /\ (acc[c].pc = "returned" /\ schan[c].exists
                /\ (~incoming_calls[c][1].connection \/ ~sconn[c].on_incoming_request) =>
                schan[c].shutdown # NoValue)

\* C7 witness: an accept whose map insertion failed.
C7_Witness ==
    \E c \in Channels :
        /\ acc[c].pc = "returned"
        /\ registration[c].reached
        /\ ~registration[c].shutting_down
        /\ ~registration[c].put_ok
        /\ incoming_calls[c] = <<[connection |-> FALSE, error_code |-> AWS_ERROR_OOM]>>
        /\ schan[c].shutdown = AWS_ERROR_OOM

\* C8: on_destroy_complete is invoked and the server freed only after
\* aws_http_server_release was called and the listener reported its own
\* destruction; a server whose creation failed never invokes it.
C8_DestroyOnlyAfterListener ==
    /\ (srv_counts.destroy_complete > 0 \/ srv_counts.clean_ups > 0
            \/ server.state = "freed") =>
           /\ listener = "destroyed"
           /\ is_shutting_down
           /\ srv_counts.listener_destroys >= 1
           /\ \A c \in Channels : c \notin channel_to_connection_map
    /\ (server.state = "create_failed" =>
           srv_counts.destroy_complete = 0 /\ srv_counts.clean_ups = 0)
    /\ (listener # "destroyed" => server.state # "freed")

\* C8 witness: a released server torn down after its listener.
C8_Witness ==
    /\ server.state = "freed"
    /\ listener = "destroyed"
    /\ srv_counts.destroy_complete = 1
    /\ srv_counts.clean_ups = 1

\* C9: a server connection's on_shutdown is invoked at most once per
\* channel and only by a shutdown notification that found and removed the
\* channel's entry; a notification for a channel that is not in the map
\* completes without calling the user.
C9_ConnectionShutdownCallback ==
    \A c \in Channels :
        /\ conn_shutdown_calls[c] <= 1
        /\ (conn_shutdown_calls[c] = 1 =>
                /\ shut[c].pc = "done"
                /\ shut[c].was_present
                /\ Registered(c)
                /\ c \notin channel_to_connection_map)
        /\ (shut[c].pc = "done" /\ ~shut[c].was_present =>
                conn_shutdown_calls[c] = 0)
        /\ (shut[c].pc \in {"notify", "done"} => (shut[c].was_present <=> Registered(c)))

\* C9 witness: a notification for a channel whose setup failed before
\* registration has completed.
C9_Witness ==
    \E c \in Channels :
        /\ schan[c].exists
        /\ ~Registered(c)
        /\ shut[c].pc = "done"
        /\ ~shut[c].was_present
        /\ conn_shutdown_calls[c] = 0

(***************************************************************************)
(* Properties of the reference count.                                      *)
(***************************************************************************)
\* Releases that replaced a count of 1 and have not yet acted on it.
PendingFinal ==
    {t \in RefThreads : ref_frame[t].pc # "idle" /\ ref_frame[t].prev_refcount = 1}

RefsOwned == {t \in RefThreads : held[t] >= 1}

\* C10: whatever the interleaving of balanced acquire and release calls,
\* the final-release action (shutdown request, then release of the channel
\* hold) happens exactly once, in the release that took the count from 1 to
\* 0: no earlier release performs it and two concurrent releases cannot
\* both perform it.
C10_FinalReleaseOnce ==
    /\ Len(final_releases) + Cardinality(PendingFinal) <= 1
    /\ (refcount = 0 <=> Len(final_releases) + Cardinality(PendingFinal) = 1)
    /\ \A i \in 1..Len(final_releases) :
           /\ final_releases[i].prev_refcount = 1
           /\ final_releases[i].refcount = 0
    /\ (Len(final_releases) = 0 => ref_channel.holds = 1)
    /\ (Len(final_releases) = 0 /\ PendingFinal = {} =>
            ref_channel.shutdown # AWS_ERROR_SUCCESS)
    /\ (Len(final_releases) = 1 =>
            ref_channel.holds = 0 /\ ref_channel.shutdown # NoValue)
    /\ (RefsOwned = {} /\ (\A t \in RefThreads : ref_frame[t].pc = "idle") =>
            Len(final_releases) = 1)

\* C10 witness: after an acquire, two threads were inside release at once
\* and the one that replaced the count of 1 performed the final action.
C10_Witness ==
    /\ acquires >= 1
    /\ Len(final_releases) = 1
    /\ \E t \in RefThreads :
           /\ t # final_releases[1].thread
           /\ ref_frame[t].pc = "fetched"
           /\ ref_frame[t].prev_refcount = 2
    /\ ref_channel.holds = 0

\* C11: the release that takes the count to zero first asks the channel to
\* shut down, which leaves a channel already shutting down as it was, and
\* only then gives up the connection's hold; the connection is destroyed
\* only by the channel's teardown, after that hold is gone, and never while
\* its count is above zero.
C11_ShutdownThenReleaseHold ==
    /\ (ref_channel.holds = 0 => ref_channel.shutdown # NoValue)
    /\ \A t \in RefThreads :
           ref_frame[t].pc = "shutdown_requested" =>
               ref_channel.holds = 1 /\ ref_channel.shutdown # NoValue
    /\ (ref_channel.shutdown = AWS_ERROR_SUCCESS => refcount = 0)
    /\ Len(ref_destroys) <= 1
    /\ \A i \in 1..Len(ref_destroys) :
           /\ ref_destroys[i].refcount = 0
           /\ ref_destroys[i].shutdown # NoValue
           /\ Len(final_releases) = 1
           /\ refcount = 0

\* C11 witness: the channel was already shutting down for another reason
\* when the final release asked for its shutdown; the reason is unchanged,
\* the hold was released afterwards and the teardown destroyed the
\* connection.
C11_Witness ==
    /\ acquires >= 1
    /\ Len(final_releases) = 1
    /\ ref_channel.shutdown = AWS_IO_SOCKET_CLOSED
    /\ ref_channel.holds = 0
    /\ Len(ref_destroys) = 1

(***************************************************************************)
(* Properties of the stream ids.                                           *)
(***************************************************************************)
StreamCalls == 1..Len(stream_returns)

StreamSentinel(i) == stream_returns[i].next_id = U32Zero

\* C12: the ids returned by successive calls on one connection are strictly
\* increasing, each 2 above the one before, of the parity of the
\* connection's first id and within 1..2^31-1; none is returned twice; and
\* a call returns 0 and raises the exhaustion error exactly when the next
\* id would exceed 2^31-1.
C12_StreamIdsIncreaseByTwo ==
    \A i \in StreamCalls :
        LET r == stream_returns[i] IN
        /\ StreamSentinel(i) <=> U32Gt(r.before, MAX_STREAM_ID)
        /\ StreamSentinel(i) <=> r.raised = AWS_ERROR_HTTP_STREAM_IDS_EXHAUSTED
        /\ ~StreamSentinel(i) => r.raised = NoValue
        /\ ~StreamSentinel(i) =>
               /\ ~U32Gt(r.next_id, MAX_STREAM_ID)
               /\ U32ToNat(r.next_id) \in 1..U32ToNat(MAX_STREAM_ID)
               /\ r.next_id[2] % 2 = stream_first % 2
               /\ r.next_id = r.before
        /\ \A j \in StreamCalls :
               /\ (j = i + 1 /\ ~StreamSentinel(j) =>
                       /\ ~StreamSentinel(i)
                       /\ stream_returns[j].next_id = U32Add(r.next_id, 2)
                       /\ U32Gt(stream_returns[j].next_id, r.next_id))
               /\ (j > i /\ ~StreamSentinel(i) =>
                       stream_returns[j].next_id # r.next_id)
               /\ (j > i /\ StreamSentinel(i) => StreamSentinel(j))
        /\ (r.call = 1 => r.next_id = U32FromNat(stream_first))

\* C12 witness: a run that returned the largest id of its parity and then
\* the sentinel.
C12_Witness ==
    \E i, j \in StreamCalls :
        /\ j = i + 1
        /\ ~StreamSentinel(i)
        /\ StreamSentinel(j)
        /\ i > 1
        /\ stream_first = 2

\* C13 (as stated): on a client connection the first (2^31 - 1)/2 calls
\* return the odd ids in order and the call after them returns the sentinel
\* and raises the exhaustion error.
C13_ClientIdCount_Original ==
    stream_first = 1 =>
        \A i \in StreamCalls :
            LET r == stream_returns[i] IN
            /\ (r.call <= U32ToNat(MAX_STREAM_ID) \div 2 =>
                    r.next_id = StreamIdAfter(1, r.call - 1) /\ r.raised = NoValue)
            /\ (r.call = U32ToNat(MAX_STREAM_ID) \div 2 + 1 =>
                    StreamSentinel(i) /\ r.raised = AWS_ERROR_HTTP_STREAM_IDS_EXHAUSTED)

\* C13 (amended): on a client connection the first 2^30 calls, that is
\* (2^31 - 1)/2 rounded up, return the odd ids 1, 3, ..., 2^31-1 in order,
\* and every call after them returns the sentinel and raises the
\* exhaustion error.
C13_ClientIdCount ==
    stream_first = 1 =>
        \A i \in StreamCalls :
            LET r == stream_returns[i] IN
            /\ (r.call <= U32ToNat(MAX_STREAM_ID) \div 2 + 1 =>
                    /\ r.next_id = StreamIdAfter(1, r.call - 1)
                    /\ r.next_id[2] % 2 = 1
                    /\ r.raised = NoValue)
            /\ (r.call > U32ToNat(MAX_STREAM_ID) \div 2 + 1 =>
                    StreamSentinel(i) /\ r.raised = AWS_ERROR_HTTP_STREAM_IDS_EXHAUSTED)

\* C13 witness: call number 2^30 of a client returns 2^31-1 and the call
\* after it returns the sentinel.
C13_Witness ==
    /\ stream_first = 1
    /\ \E i, j \in StreamCalls :
           /\ j = i + 1
           /\ stream_returns[i].call = U32ToNat(MAX_STREAM_ID) \div 2 + 1
           /\ stream_returns[i].next_id = MAX_STREAM_ID
           /\ StreamSentinel(j)

(***************************************************************************)
(* Properties of s_connection_new.                                         *)
(***************************************************************************)
\* Where a call appears in the calls made (0 if it was not made).
NewCallAt(name) ==
    IF \E i \in 1..Len(new_calls) : new_calls[i] = name
    THEN CHOOSE i \in 1..Len(new_calls) : new_calls[i] = name
    ELSE 0

NewCallCount(name) == Cardinality({i \in 1..Len(new_calls) : new_calls[i] = name})

\* The call got as far as choosing a version.
NewReachedVersion ==
    /\ new_args.called
    /\ new_args.e.slot_new_ok
    /\ new_args.e.insert_ok
    /\ new_args.is_using_tls => new_args.e.tls_handler

NewConstructors ==
    {"aws_http_connection_new_http1_1_server", "aws_http_connection_new_http1_1_client",
     "aws_http_connection_new_http2_server", "aws_http_connection_new_http2_client"}

\* C14: the version is decided by whether TLS is in use and by the ALPN
\* string alone: HTTP/2 for TLS with exactly "h2", HTTP/1.1 for everything
\* else; no ALPN value makes the creation fail, and the constructor called
\* is the one of the chosen version and of the role.
C14_VersionFromTlsAndAlpn ==
    NewReachedVersion =>
        LET a == new_args
            h2 == a.is_using_tls /\ a.e.alpn = "h2"
        IN
        /\ new_result.http_version =
               (IF h2 THEN AWS_HTTP_VERSION_2 ELSE AWS_HTTP_VERSION_1_1)
        /\ (a.e.ctor_ok /\ a.e.set_handler_ok =>
                new_result.connection /\ new_result.raised = NoValue)
        /\ NewCallCount("aws_tls_handler_protocol") = (IF a.is_using_tls THEN 1 ELSE 0)
        /\ \A n \in NewConstructors :
               NewCallCount(n) =
                   (IF n = (IF h2 THEN IF a.is_server
                                       THEN "aws_http_connection_new_http2_server"
                                       ELSE "aws_http_connection_new_http2_client"
                            ELSE IF a.is_server
                                 THEN "aws_http_connection_new_http1_1_server"
                                 ELSE "aws_http_connection_new_http1_1_client")
                    THEN 1 ELSE 0)

\* C14 witness: a TLS server whose peer negotiated an ALPN string that is
\* neither "http/1.1" nor "h2" gets an HTTP/1.1 server connection.
C14_Witness ==
    /\ NewReachedVersion
    /\ new_args.is_using_tls
    /\ new_args.is_server
    /\ new_args.e.alpn = "h2c"
    /\ new_result.connection
    /\ new_result.http_version = AWS_HTTP_VERSION_1_1
    /\ NewCallCount("aws_http_connection_new_http1_1_server") = 1

\* C15: a creation that fails at any step returns no connection, removes
\* the slot it created, and destroys a connection object it constructed
\* exactly once: directly if the slot has not taken it as its handler,
\* through the slot's removal otherwise.
C15_FailedCreationRollsBack ==
    new_args.called /\ ~new_result.connection =>
        LET e == new_args.e
            constructed == NewReachedVersion /\ e.ctor_ok
        IN
        /\ new_result.raised # NoValue
        /\ (e.slot_new_ok =>
                /\ NewCallCount("aws_channel_slot_remove") = 1
                /\ new_calls[Len(new_calls)] = "aws_channel_slot_remove"
                /\ new_result.slot_removed)
        /\ (~e.slot_new_ok =>
                /\ NewCallCount("aws_channel_slot_remove") = 0
                /\ ~new_result.slot_created)
        /\ NewCallCount("aws_channel_handler_destroy")
               = (IF constructed /\ ~e.handler_stored THEN 1 ELSE 0)
        /\ new_result.destroyed_direct = NewCallCount("aws_channel_handler_destroy")
        /\ new_result.destroyed_by_slot
               = (IF constructed /\ e.handler_stored THEN 1 ELSE 0)
        /\ (constructed =>
                new_result.destroyed_direct + new_result.destroyed_by_slot = 1)
        /\ (~constructed =>
                new_result.destroyed_direct + new_result.destroyed_by_slot = 0)

\* C15 witness: installing the handler failed after the slot had taken the
\* connection as its handler, so that only the slot's removal destroys it.
C15_Witness ==
    /\ new_args.called
    /\ ~new_result.connection
    /\ NewReachedVersion
    /\ new_args.e.ctor_ok
    /\ ~new_args.e.set_handler_ok
    /\ new_args.e.handler_stored
    /\ NewCallCount("aws_channel_handler_destroy") = 0
    /\ new_result.destroyed_by_slot = 1
    /\ new_result.slot_removed

\* C16: on_channel_handler_installed is invoked exactly once by a creation
\* that succeeds, after the slot was inserted and the connection set as its
\* handler, and never by a creation that fails.
C16_InstalledHookOnce ==
    new_args.called =>
        /\ NewCallCount("on_channel_handler_installed")
               = (IF new_result.connection THEN 1 ELSE 0)
        /\ new_result.hook_calls = NewCallCount("on_channel_handler_installed")
        /\ (new_result.connection =>
                /\ NewCallAt("aws_channel_slot_insert_end") > 0
                /\ NewCallAt("aws_channel_slot_set_handler")
                       > NewCallAt("aws_channel_slot_insert_end")
                /\ NewCallAt("on_channel_handler_installed")
                       > NewCallAt("aws_channel_slot_set_handler")
                /\ NewCallAt("on_channel_handler_installed") = Len(new_calls)
                /\ new_result.slot_inserted
                /\ ~new_result.slot_removed)

\* C16 witness: a successful creation of an HTTP/2 client connection.
C16_Witness ==
    /\ new_args.called
    /\ new_result.connection
    /\ new_result.http_version = AWS_HTTP_VERSION_2
    /\ ~new_args.is_server
    /\ new_calls[Len(new_calls)] = "on_channel_handler_installed"

(***************************************************************************)
(* Properties of the calls on a connection.                                *)
(***************************************************************************)
ApiCalls == 1..Len(api_log)

IsHttp2Call(i) == api_log[i].op \in Http2Operations

IsConfigureCall(i) == api_log[i].op = "aws_http_connection_configure_server"

\* C17: each HTTP/2-only operation called on a connection that is not
\* HTTP/2 returns failure with INVALID_STATE, does not call into the
\* implementation and leaves the connection as it was; on an HTTP/2
\* connection the call is forwarded to the implementation's function.
C17_Http2OnlyOperations ==
    \A i \in ApiCalls :
        IsHttp2Call(i) =>
            LET c == api_log[i] IN
            IF c.before.http_version # AWS_HTTP_VERSION_2
            THEN /\ c.result = "AWS_OP_ERR"
                 /\ c.raised = AWS_ERROR_INVALID_STATE
                 /\ c.impl_after = c.impl_before
                 /\ c.after = c.before
            ELSE /\ c.impl_after = Append(c.impl_before, Http2VtableEntry(c.op))
                 /\ c.after = c.before
                 /\ c.raised # AWS_ERROR_INVALID_STATE
                 /\ (~Http2ReturnsImplResult(c.op) => c.result = "AWS_OP_SUCCESS")

\* C17 witness: two HTTP/2-only operations were refused on an HTTP/1.1
\* connection and nothing reached the implementation.
C17_Witness ==
    /\ Len(api_log) = 2
    /\ api_conn.http_version = AWS_HTTP_VERSION_1_1
    /\ api_log[1].op = "aws_http2_connection_ping"
    /\ api_log[2].op = "aws_http2_connection_get_local_settings"
    /\ api_log[1].result = "AWS_OP_ERR"
    /\ api_log[2].result = "AWS_OP_ERR"
    /\ api_impl = <<>>

ConfigureSucceeded(i) == IsConfigureCall(i) /\ api_log[i].result = "AWS_OP_SUCCESS"

\* C18 (as stated): the first call that supplies a handler succeeds and
\* stores handler, shutdown callback and user data; every later call on the
\* connection and every call on a client connection fails with
\* INVALID_STATE and changes nothing.
C18_ConfigureServerOnce_Original ==
    \A i \in ApiCalls :
        IsConfigureCall(i) =>
            LET c == api_log[i] IN
            /\ ((\E j \in ApiCalls : j < i /\ ConfigureSucceeded(j))
                    \/ ~c.before.server_data) =>
                   /\ c.result = "AWS_OP_ERR"
                   /\ c.raised = AWS_ERROR_INVALID_STATE
                   /\ c.after = c.before

\* C18 (amended): a configuration succeeds at most once per connection:
\* the first call on a server connection that supplies a handler stores
\* handler, shutdown callback and user data and returns success; later
\* calls and calls on a client connection that supply a handler fail with
\* INVALID_STATE; a call that supplies no options or no handler fails with
\* INVALID_ARGUMENT whatever the connection; a failed call changes nothing.
C18_ConfigureServerOnce ==
    /\ Cardinality({i \in ApiCalls : ConfigureSucceeded(i)}) <= 1
    /\ \A i \in ApiCalls :
        IsConfigureCall(i) =>
            LET c == api_log[i]
                supplied == ~c.options.is_null /\ c.options.on_incoming_request # NoValue
                earlier == \E j \in ApiCalls : j < i /\ ConfigureSucceeded(j)
            IN
            /\ (c.result = "AWS_OP_SUCCESS" <=>
                    supplied /\ c.before.server_data /\ ~earlier)
            /\ (c.result = "AWS_OP_SUCCESS" =>
                    /\ c.raised = NoValue
                    /\ c.after.on_incoming_request = c.options.on_incoming_request
                    /\ c.after.on_shutdown = c.options.on_shutdown
                    /\ c.after.user_data = c.options.connection_user_data
                    /\ c.after.http_version = c.before.http_version
                    /\ c.after.server_data = c.before.server_data)
            /\ (c.result # "AWS_OP_SUCCESS" =>
                    /\ c.after = c.before
                    /\ c.raised = (IF supplied THEN AWS_ERROR_INVALID_STATE
                                   ELSE AWS_ERROR_INVALID_ARGUMENT))

\* C18 witness: a second configuration with another handler was refused
\* with INVALID_STATE and the first handler is still the stored one.
C18_Witness ==
    /\ Len(api_log) = 2
    /\ ConfigureSucceeded(1)
    /\ IsConfigureCall(2)
    /\ ~api_log[2].options.is_null
    /\ api_log[1].options.on_incoming_request = "on_incoming_request_A"
    /\ api_log[2].options.on_incoming_request = "on_incoming_request_B"
    /\ api_log[2].raised = AWS_ERROR_INVALID_STATE
    /\ api_conn.on_incoming_request = "on_incoming_request_A"

\* The user was handed the connection of channel c and did not configure it.
LeftUnconfigured(c) ==
    /\ Len(incoming_calls[c]) >= 1
    /\ incoming_calls[c][1].connection
    /\ ~sconn[c].on_incoming_request

\* C19: when on_incoming_connection returns without the connection having
\* been configured, the accept asks the channel to shut down with
\* REACTION_REQUIRED and releases the connection, and on_incoming_connection
\* is not invoked again for the channel.
C19_UnconfiguredConnectionClosed ==
    \A c \in Channels :
        LeftUnconfigured(c) =>
            /\ acc[c].pc \in {"error", "returned"}
            /\ Len(incoming_calls[c]) = 1
            /\ (acc[c].pc = "error" =>
                    /\ acc[c].user_cb_invoked
                    /\ AcceptErrorCode(acc[c]) = AWS_ERROR_HTTP_REACTION_REQUIRED)
            /\ (acc[c].pc = "returned" =>
                    /\ AWS_ERROR_HTTP_REACTION_REQUIRED \in schan[c].requested
                    /\ schan[c].shutdown # NoValue
                    /\ (schan[c].requested = {AWS_ERROR_HTTP_REACTION_REQUIRED} =>
                            schan[c].shutdown = AWS_ERROR_HTTP_REACTION_REQUIRED)
                    /\ sconn[c].refcount = 0
                    /\ schan[c].holds = 0)

\* C19 witness: an accept that returned after the user left the connection
\* unconfigured, with the channel shutting down for that reason.
C19_Witness ==
    \E c \in Channels :
        /\ LeftUnconfigured(c)
        /\ acc[c].pc = "returned"
        /\ schan[c].shutdown = AWS_ERROR_HTTP_REACTION_REQUIRED
        /\ sconn[c].refcount = 0
        /\ Len(incoming_calls[c]) = 1

\* C20: connect returns failure with INVALID_ARGUMENT when the options are
\* null, self_size is 0, the allocator, the socket options or on_setup is
\* missing, the host name is empty, the HTTP/2 settings count is non-zero
\* with a null array, or the monitoring options are invalid; a connect that
\* returns failure never invokes on_setup or on_shutdown; one that returns
\* success reports its outcome through on_setup.
C20_ConnectValidation ==
    LET o == connect_options
        rejected ==
            \/ ~o.present
            \/ o.self_size = 0
            \/ ~o.allocator
            \/ ~o.socket_options
            \/ ~o.on_setup
            \/ o.host_name_len = 0
            \/ (o.num_initial_settings # 0 /\ ~o.initial_settings_array)
            \/ o.monitoring = "invalid"
    IN
    /\ (connect_result # NoValue /\ rejected =>
            /\ connect_result = "AWS_OP_ERR"
            /\ last_error = AWS_ERROR_INVALID_ARGUMENT
            /\ http_bootstrap = NoBootstrap)
    /\ (connect_result = "AWS_OP_ERR" =>
            /\ setup_calls = <<>>
            /\ shutdown_calls = <<>>
            /\ cpc = "connect_failed"
            /\ http_bootstrap.state # "live"
            /\ last_error # AWS_ERROR_SUCCESS)
    /\ (connect_result = "AWS_OP_SUCCESS" =>
            /\ ~rejected
            /\ (cpc = "done" => Len(setup_calls) = 1))

\* C20 witness: a connect whose options are in order but for an empty host
\* name has returned failure.
C20_Witness ==
    /\ connect_result = "AWS_OP_ERR"
    /\ last_error = AWS_ERROR_INVALID_ARGUMENT
    /\ connect_options.present
    /\ connect_options.host_name_len = 0
    /\ connect_options.self_size # 0
    /\ connect_options.allocator
    /\ connect_options.socket_options
    /\ connect_options.on_setup
    /\ connect_options.monitoring = "valid"
    /\ setup_calls = <<>>

\* C21: every access to is_shutting_down and to the channel-to-connection
\* map made after the listener was created (by aws_http_server_release, the
\* accept-setup callback, the channel-shutdown callback and server clean-up)
\* is made by a thread that holds the server's lock.
C21_SharedStateUnderLock ==
    \A a \in accesses : a.holds_lock

\* C21: the accesses of aws_http_server_release and of the two channel
\* callbacks are made under the lock.
C21_CallbacksUnderLock ==
    \A a \in accesses : a.site # "s_http_server_clean_up" => a.holds_lock

\* C21 witness: s_http_server_clean_up has cleaned up the map without the
\* lock while a second aws_http_server_release held it.
C21_CleanUpWhileLocked ==
    \E a \in accesses :
        /\ a.site = "s_http_server_clean_up"
        /\ ~a.holds_lock
        /\ a.other_holds_lock

(***************************************************************************)
(* Properties of the HTTP/1.1 stream pipeline and of window updates.       *)
(***************************************************************************)
\* C22: on an HTTP/1.1 connection the outgoing cursor is pointed at the
\* streams strictly in the order they were accepted for sending, the first,
\* then the second, then the third, skipping and repeating none, whenever
\* their incoming messages complete; the stream it points at is in the
\* stream list.
C22_StreamsServicedInOrder ==
    /\ \A i \in 1..Len(outgoing_visits) :
          /\ outgoing_visits[i] = i
          /\ h1_streams[i].submitted
    /\ outgoing_stream # NoStream =>
          /\ outgoing_stream = outgoing_visits[Len(outgoing_visits)]
          /\ \E i \in 1..Len(stream_list) : stream_list[i] = outgoing_stream
          /\ ~h1_streams[outgoing_stream].is_outgoing_message_done
    /\ \A x \in StreamNames :
          h1_streams[x].is_outgoing_message_done =>
              \E i \in 1..Len(outgoing_visits) : outgoing_visits[i] = x
    /\ \A i \in 1..Len(completed) : completed[i] = i
    /\ ~is_outgoing_stream_task_active =>
          /\ new_client_stream_list = <<>>
          /\ \A x \in StreamNames :
                h1_streams[x].submitted => h1_streams[x].is_outgoing_message_done

\* C22 witness: the cursor has gone over the first and the second stream,
\* which are complete, and points at the third, whose incoming message
\* completed while it is still being sent; a fourth stream is submitted.
C22_Witness ==
    /\ outgoing_visits = <<1, 2, 3>>
    /\ outgoing_stream = 3
    /\ completed = <<1, 2>>
    /\ h1_streams[3].is_incoming_message_done
    /\ h1_streams[4].submitted

\* The window_update_task runs so far.
WindowTaskRuns == SelectSeq(window_applied, LAMBDA a : a.by = "window_update_task")

RECURSIVE SumOfSizes(_)
SumOfSizes(runs) == IF runs = <<>> THEN 0 ELSE Head(runs).size + SumOfSizes(Tail(runs))

RECURSIVE SumOfIncrements(_)
SumOfIncrements(callers) ==
    IF callers = {} THEN 0
    ELSE LET t == CHOOSE u \in callers : TRUE
         IN win[t].increment + SumOfIncrements(callers \ {t})

\* C23: update_window calls made off the event-loop thread before the
\* window-update task has run schedule the task once only, and the task
\* applies one increment, the sum of theirs: the task is never scheduled
\* twice at a time, it is pending exactly while an increment is, and what
\* its runs have applied plus what is pending is what the calls have added.
C23_WindowUpdatesCoalesce ==
    /\ window_update_task <= 1
    /\ \A i \in 1..Len(WindowTaskRuns) : WindowTaskRuns[i].size > 0
    /\ SumOfSizes(WindowTaskRuns) + window_update_size =
           SumOfIncrements({t \in WindowCallers : win[t].pc # "idle"})
    /\ window_update_size # 0 <=>
           \/ window_update_task = 1
           \/ \E t \in WindowCallers : win[t].pc = "schedule" /\ win[t].should_schedule
    /\ Len(WindowTaskRuns) <=
           Cardinality({t \in WindowCallers : win[t].pc = "done" /\ win[t].should_schedule})

\* C23 witness: two calls were made before the task ran; one of them
\* scheduled it, and its one run applied the sum of the two increments.
C23_Witness ==
    /\ win[1].pc = "done" /\ win[2].pc = "done"
    /\ win[1].should_schedule /\ ~win[2].should_schedule
    /\ window_applied = <<[size |-> win[1].increment + win[2].increment,
                           by |-> "window_update_task"]>>
    /\ window_update_task = 0

\* C24: once aws_http_server_release has set is_shutting_down, every channel
\* in the map has been asked to shut down with CONNECTION_CLOSED, no accept
\* that found the flag set has put its channel into the map, and so every
\* channel the server ever registered has a shutdown requested.
C24_ReleaseShutsDownEveryChannel ==
    /\ is_shutting_down =>
          \A c \in channel_to_connection_map :
              /\ AWS_ERROR_HTTP_CONNECTION_CLOSED \in schan[c].requested
              /\ schan[c].shutdown # NoValue
    /\ \A c \in Channels :
          /\ registration[c].shutting_down => c \notin channel_to_connection_map
          /\ registration[c].put_ok => ~registration[c].shutting_down
          /\ registration[c].put_ok /\ is_shutting_down => schan[c].shutdown # NoValue

\* C24 witness: the release found a registered channel in the map and asked
\* it to shut down; the channel is shutting down for that reason.
C24_Witness ==
    \E c \in channel_to_connection_map :
        /\ is_shutting_down
        /\ registration[c].put_ok
        /\ schan[c].shutdown = AWS_ERROR_HTTP_CONNECTION_CLOSED
        /\ srv_counts.broadcast_shutdowns = 1

\* C25: the shutdown broadcast of aws_http_server_release leaves the map as
\* it was, and an entry leaves the map only in the critical section of that
\* channel's own shutdown notification.
C25_BroadcastKeepsMap ==
    [][ /\ (\E r \in Releasers : rel[r].pc = "critical" /\ rel'[r].pc # "critical") =>
               channel_to_connection_map' = channel_to_connection_map
        /\ \A c \in Channels :
               (c \in channel_to_connection_map /\ c \notin channel_to_connection_map') =>
                   (shut[c].pc = "critical" /\ shut'[c].pc = "notify")
      ]_vars

\* C25 witness: the broadcast has asked a channel to shut down, the channel's
\* shutdown notification has not reached its critical section, and the
\* channel's entry is still in the map.
C25_Witness ==
    \E c \in channel_to_connection_map :
        /\ srv_counts.broadcast_shutdowns = 1
        /\ AWS_ERROR_HTTP_CONNECTION_CLOSED \in schan[c].requested
        /\ shut[c].pc \in {"idle", "critical"}
        /\ \A r \in Releasers : rel[r].pc # "critical"

(***************************************************************************)
(* Properties of the client bootstrap object and of the connections the    *)
(* library creates and keeps to itself.                                    *)
(***************************************************************************)
BootstrapReleases ==
    {i \in 1..Len(client_trace) : client_trace[i] = "aws_mem_release"}

\* C26: the client bootstrap is released exactly once per initiated connect
\* attempt: in the setup callback when the transport failed, otherwise at
\* the end of the channel-shutdown callback; the release comes after the
\* last callback, nothing is fired or read after it, and it never happens
\* twice.
C26_BootstrapReleasedOnce ==
    /\ Cardinality(BootstrapReleases) <= 1
    /\ Cardinality(BootstrapReleases) = bootstrap_frees
    /\ \A i \in BootstrapReleases : i = Len(client_trace)
    /\ Initiated =>
          /\ cpc = "done" <=> Cardinality(BootstrapReleases) = 1
          /\ cpc = "done" <=> http_bootstrap.state = "freed"
          /\ setup_outcome = "transport_failure" =>
                /\ client_trace = <<"on_setup", "aws_mem_release">>
                /\ ~cchannel.exists
          /\ (cpc = "done" /\ setup_outcome # "transport_failure") =>
                /\ cchannel.exists
                /\ cchannel.shutdown # NoValue
                /\ Len(client_trace) >= 2

\* C26 witness: setup succeeded, the channel shut down, on_shutdown was
\* fired and the bootstrap released after it.
C26_Witness ==
    /\ Initiated
    /\ client_trace = <<"on_setup", "on_shutdown", "aws_mem_release">>
    /\ bootstrap_frees = 1

\* The connection was created and the user was never given it.
KeptFromUser == http_bootstrap.connection /\ ~SetupReportedSuccess

\* C27: a connection that was created but never handed to the user (on the
\* client, because the statistics monitor could not be created) has its
\* initial reference released by the library, so that its hold on the
\* channel is dropped.
C27_UnhandedConnectionReleased ==
    (cpc = "done" /\ KeptFromUser) =>
        /\ cconn.refcount = 0
        /\ cchannel.holds = 0

\* C27, the server's half: a connection the accept callback created and
\* did not hand to the user has been released when the callback returns.
C27_ServerReleasesUnhanded ==
    \A c \in Channels :
        (/\ acc[c].pc = "returned"
         /\ sconn[c].state = "live"
         /\ \A i \in 1..Len(incoming_calls[c]) : ~incoming_calls[c][i].connection) =>
            /\ sconn[c].refcount = 0
            /\ schan[c].holds = 0
            /\ schan[c].shutdown # NoValue

\* C27 witness: the monitor could not be created, the channel has shut
\* down, the user was told of the failure and the bootstrap is gone; the
\* connection still holds its initial reference and its hold on the channel.
C27_ConnectionLeaked ==
    /\ cpc = "done"
    /\ KeptFromUser
    /\ Len(setup_calls) = 1
    /\ http_bootstrap.state = "freed"
    /\ cconn.refcount = 1
    /\ cchannel.holds = 1

C29_MissingTlsHandlerFails ==
    (/\ new_args.called
     /\ new_args.e.slot_new_ok
     /\ new_args.e.insert_ok
     /\ new_args.is_using_tls
     /\ ~new_args.e.tls_handler) =>
        /\ ~new_result.connection
        /\ new_result.raised = AWS_ERROR_INVALID_STATE
        /\ new_result.http_version = NoValue
        /\ new_result.slot_removed
        /\ new_result.destroyed_direct = 0
        /\ new_result.destroyed_by_slot = 0
        /\ new_result.hook_calls = 0
        /\ \A n \in NewConstructors : NewCallCount(n) = 0
        /\ NewCallCount("aws_tls_handler_protocol") = 0
        /\ NewCallCount("aws_channel_slot_remove") = 1
        /\ new_calls[Len(new_calls)] = "aws_channel_slot_remove"

\* C29 witness: a TLS client whose channel has no TLS handler left of the
\* connection slot, though everything later would have succeeded, was
\* refused with INVALID_STATE.
C29_Witness ==
    /\ new_args.called
    /\ new_args.is_using_tls
    /\ ~new_args.is_server
    /\ new_args.e.slot_new_ok /\ new_args.e.insert_ok
    /\ ~new_args.e.tls_handler
    /\ new_args.e.ctor_ok /\ new_args.e.set_handler_ok
    /\ new_result.raised = AWS_ERROR_INVALID_STATE
    /\ new_result.slot_removed

\* The lock is held only by a thread that is between a
\* s_server_lock_synced_data and the s_server_unlock_synced_data that
\* follows it in the same function.
LockHeldInCriticalSectionOnly ==
    /\ lock_owner = NewThread => npc \in {"new_listener", "store_socket"}
    /\ \A c \in Channels :
          lock_owner = ChannelThread(c) =>
              (acc[c].pc = "critical" \/ shut[c].pc = "critical")
    /\ \A r \in Releasers :
          lock_owner = ReleaseThread(r) => rel[r].pc = "critical"
    /\ lock_owner # ListenerThread

\* C30: no user callback (on_incoming_connection, a connection's
\* on_shutdown, on_destroy_complete) is invoked by a thread that holds the
\* server's lock, and a thread that takes the lock gives it up before it
\* leaves the critical section, on every path; so a callback may call
\* aws_http_server_release, and accepts and shutdowns may race with it,
\* without a deadlock on the lock.
C30_NoCallbackUnderLock ==
    [][ /\ LockHeldInCriticalSectionOnly
        /\ LockHeldInCriticalSectionOnly'
        /\ \A c \in Channels :
              (\/ incoming_calls'[c] # incoming_calls[c]
               \/ conn_shutdown_calls'[c] # conn_shutdown_calls[c]) =>
                  /\ lock_owner # ChannelThread(c)
                  /\ lock_owner' # ChannelThread(c)
        /\ srv_counts'.destroy_complete # srv_counts.destroy_complete =>
              lock_owner # ListenerThread
        /\ \A c \in Channels :
              (\/ acc[c].pc = "critical" /\ acc'[c].pc # "critical"
               \/ shut[c].pc = "critical" /\ shut'[c].pc # "critical") =>
                  lock_owner = ChannelThread(c) /\ lock_owner' = NoOwner
        /\ \A r \in Releasers :
              (rel[r].pc = "critical" /\ rel'[r].pc # "critical") =>
                  lock_owner = ReleaseThread(r) /\ lock_owner' = NoOwner
        /\ (npc = "store_socket" /\ npc' # "store_socket") =>
              lock_owner = NewThread /\ lock_owner' = NoOwner
      ]_vars

\* C30 witness: on_incoming_connection, the connection's on_shutdown and
\* on_destroy_complete have all been invoked, with a release racing the
\* accept, and the lock is free.
C30_Witness ==
    \E c \in Channels :
        /\ Len(incoming_calls[c]) = 1
        /\ incoming_calls[c][1].connection
        /\ conn_shutdown_calls[c] = 1
        /\ srv_counts.destroy_complete = 1
        /\ srv_counts.broadcast_shutdowns = 1
        /\ lock_owner = NoOwner

\* C31: an accept-setup callback that fires while aws_http_server_new is
\* still creating the listener never reads server->socket before the
\* listener handle is stored in it: aws_http_server_new holds the lock from
\* before the listener is created until the handle is stored, and the
\* callback reads server->socket only once it has been through the lock.
C31_SocketReadAfterStored ==
    /\ \A a \in socket_reads : a.socket
    /\ npc \in {"new_listener", "store_socket"} =>
          /\ lock_owner = NewThread
          /\ ~server.socket
    /\ server.socket => npc = "returned"
    /\ \A c \in Channels :
          /\ registration[c].reached => npc = "returned"
          /\ acc[c].pc \in {"critical", "notify"} => npc = "returned"
          /\ (acc[c].pc = "notify" /\ server.state # "freed") => server.socket

\* C31 witness: an accept callback that began before aws_http_server_new
\* had stored the listener handle has read server->socket, and found the
\* handle there.
C31_Witness ==
    \E a \in socket_reads :
        /\ a.during_new
        /\ a.socket
        /\ a.site = "server connection established"

\* The counter a call left behind: what the next call found, or what the
\* connection holds now.
StreamCounterAfter(i) ==
    IF i = Len(stream_returns) THEN next_stream_id ELSE stream_returns[i + 1].before

\* C32: the 32-bit stream-id counter never wraps: it never exceeds
\* MAX_STREAM_ID + 2 and never goes down; a call that returns the sentinel 0
\* leaves it unchanged, and every later call on the connection returns 0
\* and raises the exhaustion error as well.
C32_CounterNeverWraps ==
    /\ ~U32Gt(next_stream_id, U32Add(MAX_STREAM_ID, 2))
    /\ U32Gt(U32Add(MAX_STREAM_ID, 2), MAX_STREAM_ID)
    /\ \A i \in StreamCalls :
          LET r == stream_returns[i] IN
          /\ ~U32Gt(r.before, StreamCounterAfter(i))
          /\ ~U32Gt(StreamCounterAfter(i), U32Add(MAX_STREAM_ID, 2))
          /\ StreamSentinel(i) =>
                /\ StreamCounterAfter(i) = r.before
                /\ U32Gt(r.before, MAX_STREAM_ID)
                /\ \A j \in StreamCalls :
                      j > i =>
                          /\ StreamSentinel(j)
                          /\ stream_returns[j].raised = AWS_ERROR_HTTP_STREAM_IDS_EXHAUSTED
                          /\ stream_returns[j].before = r.before
          /\ ~StreamSentinel(i) => StreamCounterAfter(i) = U32Add(r.before, 2)

\* C32 witness: a client connection has handed out its last id, 2^31-1, and
\* then returned the sentinel twice; the counter stands at MAX_STREAM_ID + 2.
C32_Witness ==
    \E i \in StreamCalls :
        /\ i + 2 \in StreamCalls
        /\ stream_returns[i].next_id = MAX_STREAM_ID
        /\ StreamSentinel(i + 1)
        /\ StreamSentinel(i + 2)
        /\ next_stream_id = U32Add(MAX_STREAM_ID, 2)

====
